---- MODULE Spec2Model ----
(***************************************************************************)
(* Payment-connector routing core (crates/router/src/core/payments/        *)
(* routing.rs): volume split, constraint-graph eligibility filtering with  *)
(* fallback, the two load-through caches (compiled routing algorithms and  *)
(* constraint graphs), and the static, straight-through and session-flow   *)
(* entry points; and the webhook switch is_webhook_event_disabled          *)
(* (crates/router/src/core/webhooks/utils.rs).                             *)
(*                                                                         *)
(* Seven specifications share the module:                                    *)
(*   SpecSplit   - calls of perform_volume_split on one splits list;       *)
(*   SpecElig    - one call of perform_eligibility_analysis_with_fallback; *)
(*   SpecCache   - concurrent ensure_algorithm_cached_v1 /                 *)
(*                 get_merchant_cgraph calls, cancellation, invalidation;  *)
(*   SpecSession - perform_session_flow_routing, run twice for an attempt; *)
(*   SpecStatic  - perform_static_routing_v1 and                           *)
(*                 perform_straight_through_routing;                       *)
(*   SpecGraph   - get_merchant_cgraph / refresh_cgraph_cache step by step, *)
(*                 two calls in a row;                                     *)
(*   SpecWebhook - is_webhook_event_disabled, two calls in a row.          *)
(* Each specification freezes the variables of the others.                 *)
(***************************************************************************)
EXTENDS Integers, Sequences, FiniteSets, TLC

VARIABLES
    \* ---- SpecSplit
    vs_splits,      \* the Vec<ConnectorVolumeSplit> handed to perform_volume_split
    vs_checks,      \* TRUE iff the build has overflow checks (debug profile)
    vs_rng,         \* seed -> first raw output of ChaCha8Rng::seed_from_u64(hash(seed))
    vs_last,        \* the last call: its seed and its outcome
    vs_first,       \* seed -> outcome of the first call made with that seed
    \* ---- the process-wide constraint-graph cache (CGRAPH_CACHE)
    cgraph_cache,   \* key -> Absent or the published graph
    \* ---- SpecElig: one call of perform_eligibility_analysis_with_fallback
    el_in,          \* the call's arguments and the store rows it reads
    el_pc,          \* where the call is
    el_primary,     \* result of perform_eligibility_analysis (final_selection)
    el_fallback,    \* result of perform_fallback_routing (fallback_selection)
    el_used,        \* what the last perform_cgraph_filtering worked on
    el_ret,         \* the value the call returned
    \* ---- the process-wide routing-algorithm cache (ROUTING_CACHE)
    routing_cache,  \* key -> Absent or the published CachedAlgorithm
    \* ---- SpecCache: concurrent cache calls, one per task
    ca_pc,          \* task -> where its call is
    ca_call,        \* task -> the call's arguments
    ca_local,       \* task -> the value built by its refresh, before the push
    ca_ret,         \* task -> the value its call returned
    ca_seen,        \* task -> what was last published for its key when it looked up
    ca_loaded,      \* task -> "no", or how the store answered its call's read
    ca_wrote,       \* task -> TRUE iff its call changed a cache entry
    ca_last,        \* cache -> the value last pushed since the last invalidation
    ca_overlap,     \* TRUE iff both current calls missed the same cache concurrently
    \* ---- SpecSession: perform_session_flow_routing, run twice for one attempt
    se_in,          \* the session input and the store rows the call reads
    se_run,         \* 1 for the first run, 2 for the retry of the same attempt
    se_pc,          \* where the call is
    se_profile,     \* payment_intent.profile_id as read by the call
    se_map,         \* pm_type_map: payment method type -> (connector name -> token)
    se_todo,        \* the payment method types the loop has not visited yet
    se_part,        \* the partition in progress (perform_session_routing_for_pm_type)
    se_log,         \* payment method type -> what its partition went through
    se_result,      \* result: payment method type -> Vec<SessionRoutingChoice>
    se_ret,         \* the value the call returned
    se_prev,        \* what the first run returned
    \* ---- SpecStatic: perform_static_routing_v1 / perform_straight_through_routing
    st_in,          \* the call and its arguments, and the store rows it can read
    st_run,         \* how many times the call has been started
    st_pc,          \* where the call is
    st_cached,      \* the CachedAlgorithm that ensure_algorithm_cached_v1 returned
    st_read,        \* TRUE iff the call looked the algorithm cache up
    st_fetched,     \* what get_merchant_default_config answered, if it was asked
    st_ret,         \* the value the call returned
    \* ---- SpecGraph: get_merchant_cgraph / refresh_cgraph_cache, two calls in a row
    gr_store,       \* the merchant connector account rows of the calling merchant
    gr_filters,     \* state.conf.pm_filters
    gr_call,        \* the call and its arguments
    gr_run,         \* 1 for the first call, 2 for the one after it
    gr_pc,          \* where the call is
    gr_rows,        \* the accounts the store returned to the refresh
    gr_local,       \* the graph built by the refresh, before the push
    gr_ret,         \* the value the call returned
    gr_tried,       \* TRUE iff the call started a refresh
    gr_prev,        \* the first call and what it returned
    gr_owner,       \* key -> the arguments of the call that published the entry
    \* ---- SpecWebhook: is_webhook_event_disabled, two calls in a row
    wh_redis,       \* redis: key -> the value stored under it
    wh_configs,     \* the configs table: key -> the row's config column
    wh_call,        \* the call's arguments
    wh_run,         \* 1 for the first call, 2 for the one after it
    wh_pc,          \* where the call is
    wh_redis_res,   \* what get_and_deserialize_key returned to the call
    wh_db_res,      \* what find_config_by_key returned to the call
    wh_ret,         \* the value the call returned
    wh_prev         \* the first call and what it saw and returned

splitVars == <<vs_splits, vs_checks, vs_rng, vs_last, vs_first>>

eligVars == <<el_in, el_pc, el_primary, el_fallback, el_used, el_ret>>

cacheVars ==
    <<ca_pc, ca_call, ca_local, ca_ret, ca_seen, ca_loaded, ca_wrote, ca_last, ca_overlap>>

sessVars ==
    <<se_in, se_run, se_pc, se_profile, se_map, se_todo, se_part, se_log, se_result,
      se_ret, se_prev>>

staticVars == <<st_in, st_run, st_pc, st_cached, st_read, st_fetched, st_ret>>

graphVars ==
    <<gr_store, gr_filters, gr_call, gr_run, gr_pc, gr_rows, gr_local, gr_ret, gr_tried,
      gr_prev, gr_owner>>

webhookVars ==
    <<wh_redis, wh_configs, wh_call, wh_run, wh_pc, wh_redis_res, wh_db_res, wh_ret,
      wh_prev>>

vars ==
    <<splitVars, cgraph_cache, eligVars, routing_cache, cacheVars, sessVars, staticVars,
      graphVars, webhookVars>>

\* what each specification leaves alone
notSplit ==
    <<cgraph_cache, eligVars, routing_cache, cacheVars, sessVars, staticVars, graphVars,
      webhookVars>>
notElig ==
    <<splitVars, routing_cache, cacheVars, sessVars, staticVars, graphVars, webhookVars>>
notCache == <<splitVars, eligVars, sessVars, staticVars, graphVars, webhookVars>>
notSess == <<splitVars, eligVars, cacheVars, staticVars, graphVars, webhookVars>>
notStatic ==
    <<splitVars, cgraph_cache, eligVars, cacheVars, sessVars, graphVars, webhookVars>>
notGraph ==
    <<splitVars, eligVars, routing_cache, cacheVars, sessVars, staticVars, webhookVars>>
notWebhook ==
    <<splitVars, cgraph_cache, eligVars, routing_cache, cacheVars, sessVars, staticVars,
      graphVars>>

(***************************************************************************)
(* Bounds and universes                                                    *)
(***************************************************************************)
MaxSplits == 3

\* weights are u8 (Vec<u8>)
U8Mod == 256

Weights == {0, 1, 255}

SplitConnectors == {"A", "B"}

Seeds == {"attempt_1", "attempt_2"}

RawDraws == {0, 1, 2}

\* raw outputs of rand::thread_rng() that the model draws
ThreadDraws == RawDraws \cup {254}

NoSeed == "NoSeed"

\* Option<T>: None, Some(x)
None == <<>>
Some(x) == <<x>>
Unwrap(opt) == opt[1]

\* RoutingResult<O>
Ok(v) == [kind |-> "Ok", val |-> v]
Err(e) == [kind |-> "Err", err |-> e]
Panic == [kind |-> "Panic"]

NoCall == [kind |-> "NoCall"]

RECURSIVE SeqsUpTo(_, _)
SeqsUpTo(S, n) ==
    IF n = 0 THEN {<<>>}
    ELSE LET shorter == SeqsUpTo(S, n - 1)
         IN  shorter \cup {Append(s, x) : s \in {t \in shorter : Len(t) = n - 1}, x \in S}

\* RoutableConnectorChoice { connector, merchant_connector_id }
Choice(c, m) == [connector |-> c, merchant_connector_id |-> m]

\* ConnectorVolumeSplit { connector: RoutableConnectorChoice, split: u8 }
VolumeSplits == [connector : {Choice(c, None) : c \in SplitConnectors}, split : Weights]

(***************************************************************************)
(* Cache keys and the constraint-graph cache                               *)
(***************************************************************************)
\* identifiers are strings: sequences of tokens
MerchantIds == {<<"m1">>, <<"po", "_", "m1">>}
ProfileIds == {<<"p1">>, <<"p2">>}
TransactionTypes == {"Payment", "Payout"}

\* format!("cgraph_{}_{}", ..) / format!("cgraph_po_{}_{}", ..)
CgraphKey(transaction_type, merchant_id, profile_id) ==
    IF transaction_type = "Payment"
    THEN <<"cgraph", "_">> \o merchant_id \o <<"_">> \o profile_id
    ELSE <<"cgraph", "_", "po", "_">> \o merchant_id \o <<"_">> \o profile_id

\* format!("routing_config_{}_{profile_id}", ..) / format!("routing_config_po_{}_{profile_id}", ..)
RoutingKey(transaction_type, merchant_id, profile_id) ==
    IF transaction_type = "Payment"
    THEN <<"routing_config", "_">> \o merchant_id \o <<"_">> \o profile_id
    ELSE <<"routing_config", "_", "po", "_">> \o merchant_id \o <<"_">> \o profile_id

RoutingKeys ==
    {RoutingKey(t, m, p) : t \in TransactionTypes, m \in MerchantIds, p \in ProfileIds}

CgraphKeys ==
    {CgraphKey(t, m, p) : t \in TransactionTypes, m \in MerchantIds, p \in ProfileIds}

Absent == [kind |-> "Absent"]

\* the caches are empty when the process starts
CachesEmpty ==
    /\ cgraph_cache = [k \in CgraphKeys |-> Absent]
    /\ routing_cache = [k \in RoutingKeys |-> Absent]

\* CGRAPH_CACHE.get_val(CacheKey { key, prefix })
CgraphGetVal(key) == cgraph_cache[key]

\* CGRAPH_CACHE.push(CacheKey { key, prefix }, graph)
CgraphPush(key, graph) == cgraph_cache' = [cgraph_cache EXCEPT ![key] = graph]

\* the invalidation channel drops one entry
CgraphEvict(key) ==
    /\ cgraph_cache[key] # Absent
    /\ cgraph_cache' = [cgraph_cache EXCEPT ![key] = Absent]

(***************************************************************************)
(* The parts of the state a specification does not use                     *)
(***************************************************************************)
\* the tasks that call into the caches concurrently
Procs == {1, 2}

CacheKinds == {"routing", "cgraph"}

\* no perform_volume_split call is modelled
SplitIdle ==
    /\ vs_splits = <<>>
    /\ vs_checks = FALSE
    /\ vs_rng = [s \in Seeds |-> 0]
    /\ vs_last = [seed |-> NoSeed, out |-> NoCall, repeat |-> FALSE]
    /\ vs_first = [s \in Seeds |-> NoCall]

\* no eligibility call is modelled
EligIdle ==
    /\ el_in = NoCall
    /\ el_pc = "idle"
    /\ el_primary = NoCall
    /\ el_fallback = NoCall
    /\ el_used = NoCall
    /\ el_ret = NoCall

\* no cache call is modelled
CacheIdle ==
    /\ ca_pc = [p \in Procs |-> "idle"]
    /\ ca_call = [p \in Procs |-> NoCall]
    /\ ca_local = [p \in Procs |-> None]
    /\ ca_ret = [p \in Procs |-> NoCall]
    /\ ca_seen = [p \in Procs |-> None]
    /\ ca_loaded = [p \in Procs |-> "no"]
    /\ ca_wrote = [p \in Procs |-> FALSE]
    /\ ca_last = [c \in CacheKinds |-> None]
    /\ ca_overlap = FALSE

\* no session-flow call is modelled
SessIdle ==
    /\ se_in = NoCall
    /\ se_run = 0
    /\ se_pc = "idle"
    /\ se_profile = None
    /\ se_map = NoCall
    /\ se_todo = {}
    /\ se_part = NoCall
    /\ se_log = NoCall
    /\ se_result = NoCall
    /\ se_ret = NoCall
    /\ se_prev = NoCall

\* no static or straight-through routing call is modelled
StaticIdle ==
    /\ st_in = NoCall
    /\ st_run = 0
    /\ st_pc = "idle"
    /\ st_cached = None
    /\ st_read = FALSE
    /\ st_fetched = None
    /\ st_ret = NoCall

\* no graph call is modelled
GraphIdle ==
    /\ gr_store = <<>>
    /\ gr_filters = <<>>
    /\ gr_call = NoCall
    /\ gr_run = 0
    /\ gr_pc = "idle"
    /\ gr_rows = None
    /\ gr_local = None
    /\ gr_ret = NoCall
    /\ gr_tried = FALSE
    /\ gr_prev = NoCall
    /\ gr_owner = <<>>

WebhookIdle ==
    /\ wh_redis = <<>>
    /\ wh_configs = <<>>
    /\ wh_call = NoCall
    /\ wh_run = 0
    /\ wh_pc = "idle"
    /\ wh_redis_res = NoCall
    /\ wh_db_res = NoCall
    /\ wh_ret = NoCall
    /\ wh_prev = NoCall

(***************************************************************************)
(* Constraint graphs and the eligibility filter                            *)
(***************************************************************************)
EligConnectors == {"A", "B"}

PaymentMethodTypes == {"card", "wallet"}

\* a compiled graph, by what it answers: the (connector, payment method type)
\* pairs it accepts, and the connectors whose evaluation fails
CardGraphs ==
    {[allowed |-> {<<c, "card">> : c \in v}, faulty |-> f] :
        v \in SUBSET EligConnectors, f \in SUBSET EligConnectors} \ 
    {g \in [allowed : SUBSET (EligConnectors \X PaymentMethodTypes),
            faulty : SUBSET EligConnectors] :
        \E c \in g.faulty : <<c, "card">> \in g.allowed}

\* ConstraintGraph::check_value_validity(dir_val, &context, ..)
CheckValueValidity(graph, connector, context) ==
    IF connector \in graph.faulty THEN Err("GraphError")
    ELSE Ok(<<connector, context.payment_method_type>> \in graph.allowed)

\* the connectors that have a DirValue
DirConnectors == {"A", "B", "C"}

\* ast::ConnectorChoice::into_dir_value()
IntoDirValue(choice) ==
    IF choice.connector \in DirConnectors THEN Ok(choice.connector)
    ELSE Err("AnalysisError")

\* (variant: a candidate whose projection or evaluation fails is left out)
RECURSIVE CgraphFilterLoop_skip(_, _, _, _, _, _)
CgraphFilterLoop_skip(graph, chosen, context, eligible_connectors, i, final_selection) ==
    IF i > Len(chosen) THEN Ok(final_selection)
    ELSE LET choice == chosen[i]
             dir_val == IntoDirValue(choice)
             cgraph_eligible ==
                 IF dir_val.kind = "Err" THEN dir_val
                 ELSE CheckValueValidity(graph, dir_val.val, context)
             filter_eligible ==
                 eligible_connectors = None \/ choice.connector \in Unwrap(eligible_connectors)
         IN  CgraphFilterLoop_skip(graph, chosen, context, eligible_connectors, i + 1,
                  IF cgraph_eligible.kind = "Ok" /\ cgraph_eligible.val /\ filter_eligible
                  THEN Append(final_selection, choice)
                  ELSE final_selection)

\* (variant: a candidate is kept when either test passes)
RECURSIVE CgraphFilterLoop_or(_, _, _, _, _, _)
CgraphFilterLoop_or(graph, chosen, context, eligible_connectors, i, final_selection) ==
    IF i > Len(chosen) THEN Ok(final_selection)
    ELSE LET choice == chosen[i]
             dir_val == IntoDirValue(choice)
             cgraph_eligible ==
                 IF dir_val.kind = "Err" THEN dir_val
                 ELSE CheckValueValidity(graph, dir_val.val, context)
             filter_eligible ==
                 eligible_connectors = None \/ choice.connector \in Unwrap(eligible_connectors)
         IN  IF cgraph_eligible.kind = "Err" THEN Err("KgraphAnalysisError")
             ELSE CgraphFilterLoop_or(graph, chosen, context, eligible_connectors, i + 1,
                      IF cgraph_eligible.val \/ filter_eligible
                      THEN Append(final_selection, choice)
                      ELSE final_selection)

\* the loop of perform_cgraph_filtering over `chosen`, from candidate i on
RECURSIVE CgraphFilterLoop(_, _, _, _, _, _)
CgraphFilterLoop(graph, chosen, context, eligible_connectors, i, final_selection) ==
    IF i > Len(chosen) THEN Ok(final_selection)
    ELSE LET choice == chosen[i]
             dir_val == IntoDirValue(choice)
             cgraph_eligible ==
                 IF dir_val.kind = "Err" THEN dir_val
                 ELSE CheckValueValidity(graph, dir_val.val, context)
             filter_eligible ==
                 eligible_connectors = None \/ choice.connector \in Unwrap(eligible_connectors)
         IN  IF cgraph_eligible.kind = "Err" THEN Err("KgraphAnalysisError")
             ELSE CgraphFilterLoop(graph, chosen, context, eligible_connectors, i + 1,
                      IF cgraph_eligible.val /\ filter_eligible
                      THEN Append(final_selection, choice)
                      ELSE final_selection)

\* what get_merchant_cgraph can hand to perform_cgraph_filtering
CgraphResults ==
    {Ok(g) : g \in CardGraphs} \cup
    {Err(e) : e \in {"ProfileIdMissing", "KgraphCacheRefreshFailed", "KgraphAnalysisError"}}

\* refresh_cgraph_cache: the build fails, or a graph is built and published
RefreshCgraphCache(key, cg) ==
    \/ /\ cg = Err("KgraphCacheRefreshFailed")
       /\ UNCHANGED cgraph_cache
    \/ /\ cg.kind = "Ok"
       /\ CgraphPush(key, cg.val)

\* get_merchant_cgraph: a hit returns the entry, a miss refreshes
GetMerchantCgraph(merchant_id, profile_id, transaction_type, cg) ==
    IF profile_id = None
    THEN cg = Err("ProfileIdMissing") /\ UNCHANGED cgraph_cache
    ELSE LET key == CgraphKey(transaction_type, merchant_id, Unwrap(profile_id))
         IN  IF CgraphGetVal(key) # Absent
             THEN cg = Ok(CgraphGetVal(key)) /\ UNCHANGED cgraph_cache
             ELSE RefreshCgraphCache(key, cg)

\* perform_cgraph_filtering; cg is what get_merchant_cgraph returned to it
\* (into_context fails before the graph is asked for)
PerformCgraphFiltering(backend_input, merchant_id, profile_id, transaction_type, cg) ==
    IF ~backend_input.context_ok
    THEN cg = Err("KgraphAnalysisError") /\ UNCHANGED cgraph_cache
    ELSE GetMerchantCgraph(merchant_id, profile_id, transaction_type, cg)

CgraphFilteringResult(chosen, backend_input, eligible_connectors, cg) ==
    IF cg.kind = "Err" THEN cg
    ELSE CgraphFilterLoop(cg.val, chosen, backend_input, eligible_connectors, 1, <<>>)

(***************************************************************************)
(* perform_eligibility_analysis_with_fallback                              *)
(***************************************************************************)
MaxChosen == 2
MaxDefault == 2

EligChoices ==
    {Choice("A", None), Choice("A", Some("mca_1")), Choice("B", None), Choice("Z", None)}
DefaultChoices == {Choice("A", None), Choice("B", None)}

EligMerchant == <<"m1">>
EligProfile == <<"p1">>

\* the metadata column of a payment intent or payout: absent, a JSON object of
\* routing parameters, or JSON that is no such object
Metadatas ==
    {None,
     Some([object |-> TRUE, parameters |-> "tier_gold"]),
     Some([object |-> TRUE, parameters |-> "tier_basic"]),
     Some([object |-> FALSE, parameters |-> "tier_gold"])}

\* val.parse_value("routing_parameters")
ParseRoutingParameters(val) ==
    IF val.object THEN Ok(val.parameters) ELSE Err("ParsingError")

\* metadata.clone().map(|val| val.parse_value(..)).transpose()
\*     .change_context(MetadataParsingError): Result<Option<_>>
MetadataParsed(metadata) ==
    IF metadata = None THEN Ok(None)
    ELSE LET parsed == ParseRoutingParameters(Unwrap(metadata))
         IN  IF parsed.kind = "Err" THEN Err("MetadataParsingError")
             ELSE Ok(Some(parsed.val))

\* (variant: the parse error is propagated with `?`)
MetadataOrNone_strict(parsed) == parsed

\* .unwrap_or(None), as the Result the enclosing function goes on with
MetadataOrNone(parsed) == IF parsed.kind = "Err" THEN Ok(None) ELSE parsed

\* make_dsl_input: the BackendInput of the payment (the fields the graph and
\* the programs read)
MakeDslInput(payment_data) ==
    LET metadata == MetadataOrNone(MetadataParsed(payment_data.metadata))
    IN  IF metadata.kind = "Err" THEN metadata
        ELSE Ok([metadata |-> metadata.val,
                 payment_method_type |-> payment_data.payment_method_type,
                 context_ok |-> payment_data.context_ok])

\* make_dsl_input_for_payouts: the BackendInput of the payout
MakeDslInputForPayouts(payout_data) ==
    LET metadata == MetadataOrNone(MetadataParsed(payout_data.metadata))
    IN  IF metadata.kind = "Err" THEN metadata
        ELSE Ok([metadata |-> metadata.val,
                 payment_method_type |-> payout_data.payment_method_type,
                 context_ok |-> payout_data.context_ok])

Used(chosen, cg, out) == [chosen |-> chosen, cg |-> cg, out |-> out]

\* perform_eligibility_analysis(chosen, ..).await?
EligPrimary ==
    /\ el_pc = "start"
    /\ \E cg \in CgraphResults :
          LET backend_input == MakeDslInput(el_in.payment_data).val
              out == CgraphFilteringResult(el_in.chosen, backend_input,
                                           el_in.eligible_connectors, cg)
          IN  /\ PerformCgraphFiltering(backend_input, EligMerchant, el_in.profile_id,
                                        "Payment", cg)
              /\ el_primary' = out
              /\ el_used' = Used(el_in.chosen, cg, out)
              /\ IF out.kind = "Err"
                 THEN el_pc' = "done" /\ el_ret' = out
                 ELSE el_pc' = "primary_done" /\ UNCHANGED el_ret
    /\ UNCHANGED <<el_in, el_fallback, notElig>>

\* perform_fallback_routing, up to get_merchant_default_config(..).await
EligFallbackFetch ==
    /\ el_pc = "primary_done"
    /\ IF el_in.payment_data.profile_id = None
       THEN el_fallback' = Err("ProfileIdMissing") /\ el_pc' = "fallback_done"
       ELSE \/ el_fallback' = Err("FallbackConfigFetchFailed") /\ el_pc' = "fallback_done"
            \/ el_fallback' = Ok(el_in.default_config) /\ el_pc' = "fallback_fetched"
    /\ UNCHANGED <<el_in, el_primary, el_used, el_ret, cgraph_cache, notElig>>

\* perform_fallback_routing: perform_cgraph_filtering(fallback_config, ..).await
EligFallbackFilter ==
    /\ el_pc = "fallback_fetched"
    /\ \E cg \in CgraphResults :
          LET backend_input == MakeDslInput(el_in.payment_data).val
              fallback_config == el_fallback.val
              out == CgraphFilteringResult(fallback_config, backend_input,
                                           el_in.eligible_connectors, cg)
          IN  /\ PerformCgraphFiltering(backend_input, EligMerchant, el_in.profile_id,
                                        "Payment", cg)
              /\ el_fallback' = out
              /\ el_used' = Used(fallback_config, cg, out)
    /\ el_pc' = "fallback_done"
    /\ UNCHANGED <<el_in, el_primary, el_ret, notElig>>

\* Result::unwrap_or_default
UnwrapOrDefault(result) == IF result.kind = "Ok" THEN result.val ELSE <<>>

\* Vec::contains
Contains(list, x) == \E i \in 1..Len(list) : list[i] = x

\* iter().filter(pred).cloned().collect()
RECURSIVE FilterNotContained(_, _)
FilterNotContained(list, final_selection) ==
    IF list = <<>> THEN <<>>
    ELSE (IF ~Contains(final_selection, Head(list)) THEN <<Head(list)>> ELSE <<>>)
         \o FilterNotContained(Tail(list), final_selection)

\* (variant: the fallback is appended as it is)
AppendFallback_all(final_selection, fallback_selection) ==
    Ok(final_selection \o UnwrapOrDefault(fallback_selection))

\* (variant: a failed fallback fails the call)
AppendFallback_strict(final_selection, fallback_selection) ==
    IF fallback_selection.kind = "Err" THEN fallback_selection
    ELSE Ok(final_selection \o FilterNotContained(fallback_selection.val, final_selection))

\* final_selection.append(&mut fallback_selection.unwrap_or_default()...); Ok(final_selection)
AppendFallback(final_selection, fallback_selection) ==
    Ok(final_selection \o
       FilterNotContained(UnwrapOrDefault(fallback_selection), final_selection))

EligAppend ==
    /\ el_pc = "fallback_done"
    /\ el_ret' = AppendFallback(el_primary.val, el_fallback)
    /\ el_pc' = "done"
    /\ UNCHANGED <<el_in, el_primary, el_fallback, el_used, cgraph_cache, notElig>>

\* an admin write invalidates the merchant's graph while the call is suspended
EligCgraphEvict ==
    /\ el_pc \in {"primary_done", "fallback_fetched"}
    /\ CgraphEvict(CgraphKey("Payment", EligMerchant, EligProfile))
    /\ UNCHANGED <<eligVars, notElig>>

EligInit ==
    /\ el_in \in [chosen : SeqsUpTo(EligChoices, MaxChosen),
                  eligible_connectors : {None} \cup {Some(l) : l \in SUBSET EligConnectors},
                  profile_id : {None, Some(EligProfile)},
                  payment_data : [profile_id : {None, Some(EligProfile)},
                                  metadata : {None},
                                  payment_method_type : {"card"},
                                  context_ok : BOOLEAN],
                  default_config : SeqsUpTo(DefaultChoices, MaxDefault)]
    /\ el_pc = "start"
    /\ el_primary = NoCall
    /\ el_fallback = NoCall
    /\ el_used = NoCall
    /\ el_ret = NoCall
    /\ CachesEmpty
    /\ SplitIdle
    /\ CacheIdle
    /\ SessIdle
    /\ StaticIdle
    /\ GraphIdle
    /\ WebhookIdle

EligNext ==
    \/ EligPrimary
    \/ EligFallbackFetch
    \/ EligFallbackFilter
    \/ EligAppend
    \/ EligCgraphEvict

SpecElig == EligInit /\ [][EligNext]_vars

(***************************************************************************)
(* The routing-algorithm store and refresh_routing_cache_v1                *)
(***************************************************************************)
CacheMerchant == <<"m1">>
CacheProfile == <<"p1">>

\* RoutingAlgorithm (parsed) and CachedAlgorithm (compiled)
RoutingAlgorithm(variant, data) ==
    [type |-> "RoutingAlgorithm", variant |-> variant, data |-> data]
CachedAlgorithm(variant, data) ==
    [type |-> "CachedAlgorithm", variant |-> variant, data |-> data]

\* the rows of the routing_algorithm table: algorithm_id -> row
AlgorithmStore ==
    [algo_priority |->
        [profile_id |-> CacheProfile,
         algorithm_data |-> [kind |-> "priority",
                             data |-> <<Choice("A", None), Choice("B", None)>>]],
     algo_advanced |->
        [profile_id |-> CacheProfile,
         algorithm_data |-> [kind |-> "advanced",
                             data |-> [well_formed |-> TRUE, rules |-> "r1"]]],
     algo_adv_bad |->
        [profile_id |-> CacheProfile,
         algorithm_data |-> [kind |-> "advanced",
                             data |-> [well_formed |-> FALSE, rules |-> "r2"]]],
     algo_garbage |->
        [profile_id |-> CacheProfile,
         algorithm_data |-> [kind |-> "not_an_algorithm", data |-> <<>>]],
     algo_single |->
        [profile_id |-> CacheProfile,
         algorithm_data |-> [kind |-> "single", data |-> Choice("B", None)]],
     algo_priority_ba |->
        [profile_id |-> CacheProfile,
         algorithm_data |-> [kind |-> "priority",
                             data |-> <<Choice("B", None), Choice("A", None)>>]],
     algo_split |->
        [profile_id |-> CacheProfile,
         algorithm_data |-> [kind |-> "volume_split",
                             data |-> <<[connector |-> Choice("A", None), split |-> 1],
                                        [connector |-> Choice("B", None), split |-> 1]>>]],
     algo_split_full |->
        [profile_id |-> CacheProfile,
         algorithm_data |-> [kind |-> "volume_split",
                             data |-> <<[connector |-> Choice("A", None), split |-> 60],
                                        [connector |-> Choice("B", None), split |-> 40]>>]],
     algo_split_zero |->
        [profile_id |-> CacheProfile,
         algorithm_data |-> [kind |-> "volume_split",
                             data |-> <<[connector |-> Choice("A", None), split |-> 0]>>]],
     algo_adv_split |->
        [profile_id |-> CacheProfile,
         algorithm_data |-> [kind |-> "advanced",
                             data |-> [well_formed |-> TRUE, rules |-> "r_split"]]],
     algo_adv_split_zero |->
        [profile_id |-> CacheProfile,
         algorithm_data |-> [kind |-> "advanced",
                             data |-> [well_formed |-> TRUE, rules |-> "r_split_zero"]]],
     algo_adv_single |->
        [profile_id |-> CacheProfile,
         algorithm_data |-> [kind |-> "advanced",
                             data |-> [well_formed |-> TRUE, rules |-> "r_single"]]],
     algo_adv_nested |->
        [profile_id |-> CacheProfile,
         algorithm_data |-> [kind |-> "advanced",
                             data |-> [well_formed |-> TRUE, rules |-> "r_nested"]]],
     algo_adv_fail |->
        [profile_id |-> CacheProfile,
         algorithm_data |-> [kind |-> "advanced",
                             data |-> [well_formed |-> TRUE, rules |-> "r_fail"]]],
     algo_adv_meta |->
        [profile_id |-> CacheProfile,
         algorithm_data |-> [kind |-> "advanced",
                             data |-> [well_formed |-> TRUE, rules |-> "r_meta"]]]]

\* the ids callers pass; "algo_missing" has no row
AlgorithmIds == DOMAIN AlgorithmStore \cup {"algo_missing"}

\* the ids the concurrent cache calls pass
CacheCallIds ==
    {"algo_priority", "algo_advanced", "algo_adv_bad", "algo_garbage", "algo_missing"}

\* store.find_routing_algorithm_by_profile_id_algorithm_id(profile_id, algorithm_id)
FindRoutingAlgorithm(profile_id, algorithm_id) ==
    IF algorithm_id \in DOMAIN AlgorithmStore
       /\ AlgorithmStore[algorithm_id].profile_id = profile_id
    THEN Ok(AlgorithmStore[algorithm_id])
    ELSE Err("NotFound")

\* algorithm_data.parse_value("RoutingAlgorithm")
ParseRoutingAlgorithm(algorithm_data) ==
    IF algorithm_data.kind \in {"single", "priority", "volume_split", "advanced"}
    THEN Ok(RoutingAlgorithm(algorithm_data.kind, algorithm_data.data))
    ELSE Err("ParsingError")

\* backend::VirInterpreterBackend::with_program(program)
WithProgram(program) ==
    IF program.well_formed THEN Ok([interpreter_of |-> program.rules])
    ELSE Err("InterpreterError")

\* (variant: an Advanced program is cached as parsed, never compiled)
CompileAlgorithm_raw(algorithm) == Ok(algorithm)

\* the match of refresh_routing_cache_v1 from RoutingAlgorithm to CachedAlgorithm
CompileAlgorithm(algorithm) ==
    IF algorithm.variant = "advanced"
    THEN LET interpreter == WithProgram(algorithm.data)
         IN  IF interpreter.kind = "Err" THEN Err("DslBackendInitError")
             ELSE Ok(CachedAlgorithm("advanced", interpreter.val))
    ELSE Ok(CachedAlgorithm(algorithm.variant, algorithm.data))

\* refresh_routing_cache_v1 from the store's answer to the value to push
LoadAlgorithm(found) ==
    IF found.kind = "Err" THEN Err("DslMissingInDb")
    ELSE LET algorithm == ParseRoutingAlgorithm(found.val.algorithm_data)
         IN  IF algorithm.kind = "Err" THEN Err("DslParsingError")
             ELSE CompileAlgorithm(algorithm.val)

\* ROUTING_CACHE.get_val(CacheKey { key, prefix })
RoutingGetVal(key) == routing_cache[key]

\* ROUTING_CACHE.push(CacheKey { key, prefix }, algorithm)
RoutingPush(key, algorithm) == routing_cache' = [routing_cache EXCEPT ![key] = algorithm]

(***************************************************************************)
(* Concurrent cache calls: ensure_algorithm_cached_v1, get_merchant_cgraph *)
(* (op "get") and refresh_routing_cache_v1, refresh_cgraph_cache called    *)
(* directly (op "refresh")                                                 *)
(***************************************************************************)
\* the graphs a refresh can build from the merchant's connector accounts
BuiltGraphs == {g \in CardGraphs : g.faulty = {} /\ g.allowed # {}}

CacheCalls ==
    {call \in [cache : {"routing"}, op : {"get", "refresh"},
               profile_id : {None, Some(CacheProfile)}, algorithm_id : CacheCallIds]
           \cup
           [cache : {"cgraph"}, op : {"get", "refresh"},
            profile_id : {None, Some(CacheProfile)}, algorithm_id : {"n/a"}] :
        call.profile_id = None => call.op = "get"}

\* the key a call works on
CallKey(call) ==
    IF call.cache = "routing"
    THEN RoutingKey("Payment", CacheMerchant, Unwrap(call.profile_id))
    ELSE CgraphKey("Payment", CacheMerchant, Unwrap(call.profile_id))

Entry(call) ==
    IF call.cache = "routing" THEN RoutingGetVal(CallKey(call))
    ELSE CgraphGetVal(CallKey(call))

\* the task is between a miss (or a direct refresh) and its return
Loading(p) == ca_pc[p] \in {"load", "push"}

\* a task starts a call; the key is formatted before the first await
CacheCall(p, call) ==
    /\ ca_pc[p] \in {"idle", "done", "cancelled"}
    /\ ca_call' = [ca_call EXCEPT ![p] = call]
    /\ ca_local' = [ca_local EXCEPT ![p] = None]
    /\ ca_seen' = [ca_seen EXCEPT ![p] = None]
    /\ ca_loaded' = [ca_loaded EXCEPT ![p] = "no"]
    /\ ca_wrote' = [ca_wrote EXCEPT ![p] = FALSE]
    /\ ca_overlap' = FALSE
    /\ IF call.profile_id = None
       THEN /\ ca_pc' = [ca_pc EXCEPT ![p] = "done"]
            /\ ca_ret' = [ca_ret EXCEPT ![p] = Err("ProfileIdMissing")]
       ELSE /\ ca_pc' = [ca_pc EXCEPT ![p] = IF call.op = "get" THEN "lookup" ELSE "load"]
            /\ ca_ret' = [ca_ret EXCEPT ![p] = NoCall]
    /\ UNCHANGED <<routing_cache, cgraph_cache, ca_last, notCache>>

\* (variant: the lookup never finds the entry)
CacheLookup_blind(p) ==
    /\ ca_pc[p] = "lookup"
    /\ ca_seen' = [ca_seen EXCEPT ![p] = ca_last[ca_call[p].cache]]
    /\ ca_pc' = [ca_pc EXCEPT ![p] = "load"]
    /\ UNCHANGED <<ca_ret, ca_overlap>>
    /\ UNCHANGED <<routing_cache, cgraph_cache, ca_call, ca_local, ca_loaded, ca_wrote,
                   ca_last, notCache>>

\* get_val(..).await: a hit returns the entry, a miss goes on to the refresh
CacheLookup(p) ==
    /\ ca_pc[p] = "lookup"
    /\ ca_seen' = [ca_seen EXCEPT ![p] = ca_last[ca_call[p].cache]]
    /\ IF Entry(ca_call[p]) # Absent
       THEN /\ ca_pc' = [ca_pc EXCEPT ![p] = "done"]
            /\ ca_ret' = [ca_ret EXCEPT ![p] = Ok(Entry(ca_call[p]))]
            /\ UNCHANGED ca_overlap
       ELSE /\ ca_pc' = [ca_pc EXCEPT ![p] = "load"]
            /\ ca_overlap' =
                  (ca_overlap \/ \E q \in Procs \ {p} :
                      /\ Loading(q)
                      /\ ca_call[q].op = "get"
                      /\ ca_call[q].cache = ca_call[p].cache)
            /\ UNCHANGED ca_ret
    /\ UNCHANGED <<routing_cache, cgraph_cache, ca_call, ca_local, ca_loaded, ca_wrote,
                   ca_last, notCache>>

\* the task's call ends with `result` before any push
FailLoad(p, result) ==
    /\ ca_pc' = [ca_pc EXCEPT ![p] = "done"]
    /\ ca_ret' = [ca_ret EXCEPT ![p] = result]
    /\ UNCHANGED ca_local

\* the task holds `value`, built and not yet pushed
Built(p, value) ==
    /\ ca_pc' = [ca_pc EXCEPT ![p] = "push"]
    /\ ca_local' = [ca_local EXCEPT ![p] = Some(value)]
    /\ UNCHANGED ca_ret

\* (variant: the row is fetched by profile alone, whatever the algorithm id)
RoutingLoad_byProfile(p) ==
    /\ ca_pc[p] = "load"
    /\ ca_call[p].cache = "routing"
    /\ \E found \in {FindRoutingAlgorithm(Unwrap(ca_call[p].profile_id), "algo_priority"),
                     Err("StorageError")} :
          LET loaded == LoadAlgorithm(found)
          IN  /\ ca_loaded' = [ca_loaded EXCEPT ![p] =
                                  IF found.kind = "Ok" THEN "row" ELSE "error"]
              /\ IF loaded.kind = "Err" THEN FailLoad(p, loaded) ELSE Built(p, loaded.val)
    /\ UNCHANGED <<routing_cache, cgraph_cache, ca_call, ca_seen, ca_wrote, ca_last,
                   ca_overlap, notCache>>

\* refresh_routing_cache_v1: the store fetch returns (or fails), then parse and compile
RoutingLoad(p) ==
    /\ ca_pc[p] = "load"
    /\ ca_call[p].cache = "routing"
    /\ \E found \in {FindRoutingAlgorithm(Unwrap(ca_call[p].profile_id),
                                          ca_call[p].algorithm_id),
                     Err("StorageError")} :
          LET loaded == LoadAlgorithm(found)
          IN  /\ ca_loaded' = [ca_loaded EXCEPT ![p] =
                                  IF found.kind = "Ok" THEN "row" ELSE "error"]
              /\ IF loaded.kind = "Err" THEN FailLoad(p, loaded) ELSE Built(p, loaded.val)
    /\ UNCHANGED <<routing_cache, cgraph_cache, ca_call, ca_seen, ca_wrote, ca_last,
                   ca_overlap, notCache>>

\* refresh_cgraph_cache: the account fetch and the graph construction succeed or fail
CgraphLoad(p) ==
    /\ ca_pc[p] = "load"
    /\ ca_call[p].cache = "cgraph"
    /\ \/ /\ FailLoad(p, Err("KgraphCacheRefreshFailed"))
          /\ ca_loaded' = [ca_loaded EXCEPT ![p] = "error"]
       \/ /\ \E g \in BuiltGraphs : Built(p, g)
          /\ ca_loaded' = [ca_loaded EXCEPT ![p] = "row"]
    /\ UNCHANGED <<routing_cache, cgraph_cache, ca_call, ca_seen, ca_wrote, ca_last,
                   ca_overlap, notCache>>

\* (variant: an entry already present is kept)
PushValue_ifAbsent(call, value) ==
    IF Entry(call) # Absent THEN UNCHANGED <<routing_cache, cgraph_cache>>
    ELSE IF call.cache = "routing"
         THEN RoutingPush(CallKey(call), value) /\ UNCHANGED cgraph_cache
         ELSE CgraphPush(CallKey(call), value) /\ UNCHANGED routing_cache

\* push(CacheKey { key, prefix }, value) on the call's cache
PushValue(call, value) ==
    IF call.cache = "routing"
    THEN RoutingPush(CallKey(call), value) /\ UNCHANGED cgraph_cache
    ELSE CgraphPush(CallKey(call), value) /\ UNCHANGED routing_cache

\* push(..).await, then Ok(value)
CachePush(p) ==
    /\ ca_pc[p] = "push"
    /\ PushValue(ca_call[p], Unwrap(ca_local[p]))
    /\ ca_wrote' = [ca_wrote EXCEPT ![p] =
                       @ \/ routing_cache' # routing_cache \/ cgraph_cache' # cgraph_cache]
    /\ ca_last' = [ca_last EXCEPT ![ca_call[p].cache] = ca_local[p]]
    /\ ca_pc' = [ca_pc EXCEPT ![p] = "done"]
    /\ ca_ret' = [ca_ret EXCEPT ![p] = Ok(Unwrap(ca_local[p]))]
    /\ UNCHANGED <<ca_call, ca_local, ca_seen, ca_loaded, ca_overlap, notCache>>

\* (variant: dropping the call's future also removes the key's entry)
CacheCancel_evict(p) ==
    /\ ca_pc[p] \in {"lookup", "load", "push"}
    /\ ca_pc' = [ca_pc EXCEPT ![p] = "cancelled"]
    /\ ca_local' = [ca_local EXCEPT ![p] = None]
    /\ IF ca_call[p].cache = "routing"
       THEN RoutingPush(CallKey(ca_call[p]), Absent) /\ UNCHANGED cgraph_cache
       ELSE CgraphPush(CallKey(ca_call[p]), Absent) /\ UNCHANGED routing_cache
    /\ ca_wrote' = [ca_wrote EXCEPT ![p] =
                       @ \/ routing_cache' # routing_cache \/ cgraph_cache' # cgraph_cache]
    /\ UNCHANGED <<ca_call, ca_ret, ca_seen, ca_loaded, ca_last, ca_overlap, notCache>>

\* the call's future is dropped while suspended at get_val(..).await, at the
\* store fetch / graph construction awaits, or at push(..).await: its locals
\* (the value built so far) are dropped with it
CacheCancel(p) ==
    /\ ca_pc[p] \in {"lookup", "load", "push"}
    /\ ca_pc' = [ca_pc EXCEPT ![p] = "cancelled"]
    /\ ca_local' = [ca_local EXCEPT ![p] = None]
    /\ UNCHANGED <<routing_cache, cgraph_cache, ca_call, ca_ret, ca_seen, ca_loaded,
                   ca_wrote, ca_last, ca_overlap, notCache>>

\* the invalidation channel drops the entry of one cache
CacheInvalidate(cache) ==
    /\ IF cache = "routing"
       THEN /\ routing_cache[RoutingKey("Payment", CacheMerchant, CacheProfile)] # Absent
            /\ routing_cache' =
                  [routing_cache EXCEPT
                      ![RoutingKey("Payment", CacheMerchant, CacheProfile)] = Absent]
            /\ UNCHANGED cgraph_cache
       ELSE /\ CgraphEvict(CgraphKey("Payment", CacheMerchant, CacheProfile))
            /\ UNCHANGED routing_cache
    /\ ca_last' = [ca_last EXCEPT ![cache] = None]
    /\ UNCHANGED <<ca_pc, ca_call, ca_local, ca_ret, ca_seen, ca_loaded, ca_wrote,
                   ca_overlap, notCache>>

CacheInit ==
    /\ CachesEmpty
    /\ CacheIdle
    /\ SplitIdle
    /\ EligIdle
    /\ SessIdle
    /\ StaticIdle
    /\ GraphIdle
    /\ WebhookIdle

CacheNext ==
    \/ \E p \in Procs : \E call \in CacheCalls : CacheCall(p, call)
    \/ \E p \in Procs : CacheLookup(p)
    \/ \E p \in Procs : RoutingLoad(p)
    \/ \E p \in Procs : CgraphLoad(p)
    \/ \E p \in Procs : CachePush(p)
    \/ \E p \in Procs : CacheCancel(p)
    \/ \E cache \in CacheKinds : CacheInvalidate(cache)

SpecCache == CacheInit /\ [][CacheNext]_vars

(***************************************************************************)
(* perform_volume_split                                                    *)
(***************************************************************************)
\* WeightedIndex::<u8>::new: the running u8 total over the weights after the
\* first; `total_weight += w` overflows u8 when the sum passes 255: a panic
\* with overflow checks, a wrap without.
RECURSIVE CumulativeFold(_, _, _, _, _)
CumulativeFold(weights, i, total, cum, checks) ==
    IF i > Len(weights) THEN [kind |-> "Ok", cumulative_weights |-> cum, total_weight |-> total]
    ELSE IF total + weights[i] >= U8Mod /\ checks THEN Panic
    ELSE CumulativeFold(weights, i + 1, (total + weights[i]) % U8Mod, Append(cum, total), checks)

WeightedIndexNew(weights, checks) ==
    IF weights = <<>> THEN Err("NoItem")
    ELSE LET f == CumulativeFold(weights, 2, weights[1], <<>>, checks)
         IN  IF f.kind = "Panic" THEN Panic
             ELSE IF f.total_weight = 0 THEN Err("AllWeightsZero")
             ELSE f

\* slice::binary_search_by with the comparator of WeightedIndex::sample
\* (Less when *w <= chosen_weight, Greater otherwise; never Equal): Err(left).
RECURSIVE BinarySearchBy(_, _, _, _)
BinarySearchBy(cum, chosen, left, right) ==
    IF left >= right THEN left
    ELSE LET mid == left + ((right - left) \div 2)
         IN  IF cum[mid + 1] <= chosen
             THEN BinarySearchBy(cum, chosen, mid + 1, right)
             ELSE BinarySearchBy(cum, chosen, left, mid)

\* (variant: the search stops at the first cumulative weight >= chosen_weight)
WeightedIndexSample_atOrAbove(wi, chosen) ==
    BinarySearchBy(wi.cumulative_weights, chosen - 1, 0, Len(wi.cumulative_weights))

\* WeightedIndex::sample: chosen_weight is uniform in [0, total_weight)
WeightedIndexSample(wi, chosen) ==
    BinarySearchBy(wi.cumulative_weights, chosen, 0, Len(wi.cumulative_weights))

\* the uniform sampler reduces the generator's raw output into [0, total)
UniformSample(raw, total) == raw % total

\* (variant: the winner is swapped with the head instead of moved to it)
RemoveInsertFront_swap(splits, idx) ==
    [i \in 1..Len(splits) |->
        IF i = 1 THEN splits[idx + 1] ELSE IF i = idx + 1 THEN splits[1] ELSE splits[i]]

\* splits.remove(idx); splits.insert(0, removed)   (idx is 0-based)
RemoveInsertFront(splits, idx) ==
    <<splits[idx + 1]>> \o SubSeq(splits, 1, idx) \o SubSeq(splits, idx + 2, Len(splits))

Connectors(splits) == [i \in 1..Len(splits) |-> splits[i].connector]

\* (variant: a failed WeightedIndex::new falls back to the list as given)
PerformVolumeSplit_lenient(splits, raw, checks) ==
    LET weights == [i \in 1..Len(splits) |-> splits[i].split]
        wi == WeightedIndexNew(weights, checks)
    IN  IF wi.kind = "Panic" THEN Panic
        ELSE IF wi.kind = "Err" THEN [kind |-> "Ok", val |-> Connectors(splits), idx |-> 0]
        ELSE LET idx == WeightedIndexSample(wi, UniformSample(raw, wi.total_weight))
             IN  IF idx >= Len(splits) THEN Err("VolumeSplitFailed")
                 ELSE [kind |-> "Ok",
                       val |-> Connectors(RemoveInsertFront(splits, idx)),
                       idx |-> idx]

\* perform_volume_split once the generator's raw output is known
PerformVolumeSplit(splits, raw, checks) ==
    LET weights == [i \in 1..Len(splits) |-> splits[i].split]
        wi == WeightedIndexNew(weights, checks)
    IN  IF wi.kind = "Panic" THEN Panic
        ELSE IF wi.kind = "Err" THEN Err("VolumeSplitFailed")
        ELSE LET idx == WeightedIndexSample(wi, UniformSample(raw, wi.total_weight))
             IN  IF idx >= Len(splits) THEN Err("VolumeSplitFailed")
                 ELSE [kind |-> "Ok",
                       val |-> Connectors(RemoveInsertFront(splits, idx)),
                       idx |-> idx]

\* (variant: the seed is ignored and the thread-local generator is used)
SeededCall_threadRng(seed) ==
    \E raw \in ThreadDraws :
        LET out == PerformVolumeSplit(vs_splits, raw, vs_checks)
        IN  /\ vs_last' = [seed |-> seed, out |-> out, repeat |-> vs_first[seed] # NoCall]
            /\ vs_first' = IF vs_first[seed] = NoCall
                           THEN [vs_first EXCEPT ![seed] = out]
                           ELSE vs_first
            /\ UNCHANGED <<vs_splits, vs_checks, vs_rng, notSplit>>

\* rng_seed = Some(seed): DefaultHasher + ChaCha8Rng::seed_from_u64
SeededCall(seed) ==
    LET out == PerformVolumeSplit(vs_splits, vs_rng[seed], vs_checks)
    IN  /\ vs_last' = [seed |-> seed, out |-> out, repeat |-> vs_first[seed] # NoCall]
        /\ vs_first' = IF vs_first[seed] = NoCall
                       THEN [vs_first EXCEPT ![seed] = out]
                       ELSE vs_first
        /\ UNCHANGED <<vs_splits, vs_checks, vs_rng, notSplit>>

\* rng_seed = None: rand::thread_rng()
UnseededCall(raw) ==
    /\ vs_last' = [seed |-> NoSeed, out |-> PerformVolumeSplit(vs_splits, raw, vs_checks),
                   repeat |-> FALSE]
    /\ UNCHANGED <<vs_splits, vs_checks, vs_rng, vs_first, notSplit>>

SplitInit ==
    /\ vs_splits \in SeqsUpTo(VolumeSplits, MaxSplits)
    /\ vs_checks \in BOOLEAN
    /\ vs_rng \in [Seeds -> RawDraws]
    /\ vs_last = [seed |-> NoSeed, out |-> NoCall, repeat |-> FALSE]
    /\ vs_first = [s \in Seeds |-> NoCall]
    /\ CachesEmpty
    /\ EligIdle
    /\ CacheIdle
    /\ SessIdle
    /\ StaticIdle
    /\ GraphIdle
    /\ WebhookIdle

SplitNext ==
    \/ \E seed \in Seeds : SeededCall(seed)
    \/ \E raw \in ThreadDraws : UnseededCall(raw)

SpecSplit == SplitInit /\ [][SplitNext]_vars

(***************************************************************************)
(* Algorithm resolution and dispatch shared by the entry points            *)
(***************************************************************************)
\* interpreter.execute(backend_input).map(|out| out.connector_selection.foreign_into()):
\* the selection the compiled program makes for the payment
ProgramOutput(rules, backend_input) ==
    CASE rules = "r1" ->
            Ok(RoutingAlgorithm("priority", <<Choice("A", None), Choice("B", None)>>))
      [] rules = "r_split" ->
            Ok(RoutingAlgorithm("volume_split",
                  <<[connector |-> Choice("A", None), split |-> 1],
                    [connector |-> Choice("B", None), split |-> 1]>>))
      [] rules = "r_split_zero" ->
            Ok(RoutingAlgorithm("volume_split",
                  <<[connector |-> Choice("A", None), split |-> 0]>>))
      [] rules = "r_single" -> Ok(RoutingAlgorithm("single", Choice("A", None)))
      [] rules = "r_nested" ->
            Ok(RoutingAlgorithm("advanced", [well_formed |-> TRUE, rules |-> "r1"]))
      [] rules = "r_meta" ->
            \* a rule on a metadata key: B first for the gold tier
            IF backend_input.metadata = Some("tier_gold")
            THEN Ok(RoutingAlgorithm("priority", <<Choice("B", None), Choice("A", None)>>))
            ELSE Ok(RoutingAlgorithm("priority", <<Choice("A", None), Choice("B", None)>>))
      [] OTHER -> Err("InterpreterError")

\* perform_volume_split(..).change_context(error): the connector list or `error`
SplitOr(splits, raw, checks, error) ==
    LET out == PerformVolumeSplit(splits, raw, checks)
    IN  IF out.kind = "Panic" THEN Panic
        ELSE IF out.kind = "Err" THEN Err(error)
        ELSE Ok(out.val)

\* (variant: any output of the program is accepted and returned as a list)
ExecuteDslAndGetConnectorV1_any(backend_input, interpreter, raw, checks) ==
    LET routing_output == ProgramOutput(interpreter.interpreter_of, backend_input)
    IN  IF routing_output.kind = "Err" THEN Err("DslExecutionError")
        ELSE IF routing_output.val.variant = "priority" THEN Ok(routing_output.val.data)
        ELSE IF routing_output.val.variant = "volume_split"
        THEN SplitOr(routing_output.val.data, raw, checks, "DslFinalConnectorSelectionFailed")
        ELSE IF routing_output.val.variant = "single" THEN Ok(<<routing_output.val.data>>)
        ELSE Ok(<<>>)

\* execute_dsl_and_get_connector_v1; raw is the output of rand::thread_rng()
\* (perform_volume_split is called with rng_seed = None)
ExecuteDslAndGetConnectorV1(backend_input, interpreter, raw, checks) ==
    LET routing_output == ProgramOutput(interpreter.interpreter_of, backend_input)
    IN  IF routing_output.kind = "Err" THEN Err("DslExecutionError")
        ELSE IF routing_output.val.variant = "priority" THEN Ok(routing_output.val.data)
        ELSE IF routing_output.val.variant = "volume_split"
        THEN SplitOr(routing_output.val.data, raw, checks, "DslFinalConnectorSelectionFailed")
        ELSE Err("DslIncorrectSelectionAlgorithm")

\* ensure_algorithm_cached_v1: what the call returns; `found` is the store's
\* answer should the lookup miss
EnsureAlgorithmCachedV1(merchant_id, algorithm_id, profile_id, transaction_type, found) ==
    IF profile_id = None THEN Err("ProfileIdMissing")
    ELSE LET key == RoutingKey(transaction_type, merchant_id, Unwrap(profile_id))
         IN  IF RoutingGetVal(key) # Absent THEN Ok(RoutingGetVal(key))
             ELSE LoadAlgorithm(found)

\* ensure_algorithm_cached_v1: what the call does to the cache (the push of
\* refresh_routing_cache_v1 after a miss and a successful load)
EnsureAlgorithmPublishes(merchant_id, profile_id, transaction_type, result) ==
    IF profile_id = None THEN UNCHANGED routing_cache
    ELSE LET key == RoutingKey(transaction_type, merchant_id, Unwrap(profile_id))
         IN  IF RoutingGetVal(key) = Absent /\ result.kind = "Ok"
             THEN RoutingPush(key, result.val)
             ELSE UNCHANGED routing_cache

\* what the store can answer to find_routing_algorithm_by_profile_id_algorithm_id
StoreAnswers(profile_id, algorithm_id) ==
    IF profile_id = None THEN {Err("StorageError")}
    ELSE {FindRoutingAlgorithm(Unwrap(profile_id), algorithm_id), Err("StorageError")}

\* routing_helpers::get_merchant_default_config(store, profile_id, transaction_type)
DefaultConfigAnswers(default_config) ==
    {Ok(default_config), Err("FallbackConfigFetchFailed")}

(***************************************************************************)
(* perform_session_flow_routing and perform_session_routing_for_pm_type    *)
(***************************************************************************)
MaxSession == 3

SessionNames == {"A", "B", "C"}
Tokens == {"T1", "T2", "T3"}

\* api::SessionConnectorData { payment_method_type, connector { connector_name, get_token } }
SessionConnectorData(pmt, name, token) ==
    [payment_method_type |-> pmt, connector_name |-> name, get_token |-> token]

SessionItems ==
    {SessionConnectorData("card", "A", "T1"), SessionConnectorData("card", "B", "T2"),
     SessionConnectorData("wallet", "C", "T3"), SessionConnectorData("card", "A", "T3")}

\* the graphs the merchant's connector accounts compile to
SessionGraphs ==
    {[allowed |-> SessionNames \X PaymentMethodTypes, faulty |-> {}],
     [allowed |-> (SessionNames \X {"card"}) \cup {<<"C", "wallet">>}, faulty |-> {}]}

SessionDefaults == {<<>>, <<Choice("C", None), Choice("A", None)>>}

SessionAlgorithmIds ==
    {"algo_priority_ba", "algo_single", "algo_split", "algo_split_zero", "algo_adv_split",
     "algo_missing"}

SessMerchant == <<"m1">>

\* first output of ChaCha8Rng::seed_from_u64(DefaultHasher(seed)): fixed by the seed
SeedDraw(seed) == IF seed = "attempt_1" THEN 0 ELSE 1

\* pm_type_map.entry(payment_method_type).or_default().insert(connector_name, get_token)
\* over session_input.chosen; a later insert of the same name replaces the token
RECURSIVE PmTypeMap(_, _, _)
PmTypeMap(chosen, i, map) ==
    IF i > Len(chosen) THEN map
    ELSE LET cd == chosen[i]
         IN  PmTypeMap(chosen, i + 1,
                 [map EXCEPT ![cd.payment_method_type][cd.connector_name] = Some(cd.get_token)])

EmptyPmTypeMap == [pmt \in PaymentMethodTypes |-> [name \in SessionNames |-> None]]

\* the keys of pm_type_map
PmTypes(map) == {pmt \in PaymentMethodTypes : \E name \in SessionNames : map[pmt][name] # None}

EmptyResult == [pmt \in PaymentMethodTypes |-> None]

\* api::ConnectorData::get_connector_by_name(connectors, name, get_token, merchant_connector_id)
GetConnectorByName(connector_name, get_token, merchant_connector_id) ==
    IF connector_name \in SessionNames
    THEN Ok([connector_name |-> connector_name, get_token |-> get_token,
             merchant_connector_id |-> merchant_connector_id])
    ELSE Err("InvalidConnectorName")

\* SessionRoutingChoice { connector, payment_method_type }
SessionRoutingChoice(connector_data, pm_type) ==
    [connector |-> connector_data, payment_method_type |-> pm_type]

\* (variant: every selected connector is kept, with the token of any partition)
RECURSIVE RetainAllowed_all(_, _, _)
RetainAllowed_all(selections, allowed_connectors, pm_type) ==
    IF selections = <<>> THEN Ok(<<>>)
    ELSE LET selection == Head(selections)
             rest == RetainAllowed_all(Tail(selections), allowed_connectors, pm_type)
             token == IF allowed_connectors[selection.connector] # None
                      THEN Unwrap(allowed_connectors[selection.connector]) ELSE "T1"
         IN  Ok(<<SessionRoutingChoice(
                    GetConnectorByName(selection.connector, token,
                                       selection.merchant_connector_id).val, pm_type)>>
                \o rest.val)

\* the loop over routable_connector_choice in perform_session_flow_routing
RECURSIVE RetainAllowed(_, _, _)
RetainAllowed(selections, allowed_connectors, pm_type) ==
    IF selections = <<>> THEN Ok(<<>>)
    ELSE LET selection == Head(selections)
             connector_name == selection.connector
             rest == RetainAllowed(Tail(selections), allowed_connectors, pm_type)
         IN  IF allowed_connectors[connector_name] # None
             THEN LET connector_data ==
                          GetConnectorByName(connector_name,
                                             Unwrap(allowed_connectors[connector_name]),
                                             selection.merchant_connector_id)
                  IN  IF connector_data.kind = "Err" THEN Err("InvalidConnectorName")
                      ELSE IF rest.kind = "Err" THEN rest
                      ELSE Ok(<<SessionRoutingChoice(connector_data.val, pm_type)>> \o rest.val)
             ELSE rest

\* the match on cached_algorithm in perform_session_routing_for_pm_type
SessionDispatch(cached_algorithm, backend_input, attempt_id, raw, checks) ==
    IF cached_algorithm.variant = "single" THEN Ok(<<cached_algorithm.data>>)
    ELSE IF cached_algorithm.variant = "priority" THEN Ok(cached_algorithm.data)
    ELSE IF cached_algorithm.variant = "volume_split"
    THEN SplitOr(cached_algorithm.data, SeedDraw(attempt_id), checks, "ConnectorSelectionFailed")
    ELSE ExecuteDslAndGetConnectorV1(backend_input, cached_algorithm.data, raw, checks)

\* the payment intents of the session calls carry no metadata
SessionMetadata == None

\* backend_input (metadata parsed as in make_dsl_input) with payment_method /
\* payment_method_type set for the partition
SessionBackendInput(pm_type) ==
    [metadata |-> MetadataOrNone(MetadataParsed(SessionMetadata)).val,
     payment_method_type |-> pm_type,
     context_ok |-> TRUE]

SessionFail(result) ==
    /\ se_pc' = "done"
    /\ se_ret' = result

\* perform_session_flow_routing up to the loop over pm_type_map
SessionStart ==
    /\ se_pc = "start"
    /\ \E profile_id \in {None, Some(CacheProfile)} :
       \E answer \in {"Ok", "ProfileNotFound", "InvalidRoutingAlgorithmStructure",
                      "DslMissingRequiredField"} :
          /\ se_profile' = profile_id
          /\ IF profile_id = None
             THEN SessionFail(Err("ProfileIdMissing")) /\ UNCHANGED <<se_map, se_todo>>
             ELSE IF answer # "Ok"
             THEN SessionFail(Err(answer)) /\ UNCHANGED <<se_map, se_todo>>
             ELSE /\ se_map' = PmTypeMap(se_in.chosen, 1, EmptyPmTypeMap)
                  /\ se_todo' = PmTypes(se_map')
                  /\ se_pc' = "select"
                  /\ UNCHANGED se_ret
    /\ UNCHANGED <<se_in, se_run, se_part, se_log, se_result, se_prev>>
    /\ UNCHANGED <<routing_cache, cgraph_cache, notSess>>

Partition(pm_type, chosen_connectors) ==
    [pm_type |-> pm_type, chosen |-> chosen_connectors, first |-> None,
     fallback |-> None, final |-> <<>>]

\* (variant: an algorithm that fails to resolve or evaluate counts as choosing
\* nothing, and the partition goes on to the filter)
SessionSelect_lenient ==
    /\ se_pc = "select"
    /\ \E pm_type \in se_todo :
          /\ se_todo' = se_todo \ {pm_type}
          /\ IF se_in.algorithm_id # None
             THEN \E found \in StoreAnswers(se_profile, Unwrap(se_in.algorithm_id)) :
                  \E raw \in ThreadDraws :
                     LET cached_algorithm ==
                             EnsureAlgorithmCachedV1(SessMerchant, Unwrap(se_in.algorithm_id),
                                                     se_profile, "Payment", found)
                         chosen_connectors ==
                             IF cached_algorithm.kind = "Err" THEN cached_algorithm
                             ELSE SessionDispatch(cached_algorithm.val,
                                                  SessionBackendInput(pm_type),
                                                  se_in.attempt_id, raw, vs_checks)
                     IN  /\ EnsureAlgorithmPublishes(SessMerchant, se_profile, "Payment",
                                                     cached_algorithm)
                         /\ se_part' = Partition(pm_type,
                                           IF chosen_connectors.kind # "Ok" THEN <<>>
                                           ELSE chosen_connectors.val)
                         /\ se_pc' = "filter"
                         /\ UNCHANGED se_ret
             ELSE \E fetched \in DefaultConfigAnswers(se_in.default_config) :
                     /\ UNCHANGED routing_cache
                     /\ IF fetched.kind = "Err"
                        THEN SessionFail(fetched) /\ UNCHANGED se_part
                        ELSE /\ se_part' = Partition(pm_type, fetched.val)
                             /\ se_pc' = "filter"
                             /\ UNCHANGED se_ret
    /\ UNCHANGED <<se_in, se_run, se_profile, se_map, se_log, se_result, se_prev>>
    /\ UNCHANGED <<cgraph_cache, notSess>>

\* the loop takes the next payment method type (FxHashMap order) and
\* perform_session_routing_for_pm_type resolves chosen_connectors
SessionSelect ==
    /\ se_pc = "select"
    /\ \E pm_type \in se_todo :
          /\ se_todo' = se_todo \ {pm_type}
          /\ IF se_in.algorithm_id # None
             THEN \E found \in StoreAnswers(se_profile, Unwrap(se_in.algorithm_id)) :
                  \E raw \in ThreadDraws :
                     LET cached_algorithm ==
                             EnsureAlgorithmCachedV1(SessMerchant, Unwrap(se_in.algorithm_id),
                                                     se_profile, "Payment", found)
                         chosen_connectors ==
                             IF cached_algorithm.kind = "Err" THEN cached_algorithm
                             ELSE SessionDispatch(cached_algorithm.val,
                                                  SessionBackendInput(pm_type),
                                                  se_in.attempt_id, raw, vs_checks)
                     IN  /\ EnsureAlgorithmPublishes(SessMerchant, se_profile, "Payment",
                                                     cached_algorithm)
                         /\ IF chosen_connectors.kind # "Ok"
                            THEN SessionFail(chosen_connectors) /\ UNCHANGED se_part
                            ELSE /\ se_part' = Partition(pm_type, chosen_connectors.val)
                                 /\ se_pc' = "filter"
                                 /\ UNCHANGED se_ret
             ELSE \E fetched \in DefaultConfigAnswers(se_in.default_config) :
                     /\ UNCHANGED routing_cache
                     /\ IF fetched.kind = "Err"
                        THEN SessionFail(fetched) /\ UNCHANGED se_part
                        ELSE /\ se_part' = Partition(pm_type, fetched.val)
                             /\ se_pc' = "filter"
                             /\ UNCHANGED se_ret
    /\ UNCHANGED <<se_in, se_run, se_profile, se_map, se_log, se_result, se_prev>>
    /\ UNCHANGED <<cgraph_cache, notSess>>

\* what get_merchant_cgraph can hand to perform_cgraph_filtering in this call
SessionCgraphResults ==
    {Ok(se_in.graph), Err("ProfileIdMissing"), Err("KgraphCacheRefreshFailed"),
     Err("KgraphAnalysisError")}

\* (variant: the merchant default is filtered whatever the first pass returned)
NeedsRetry_always(final_selection) == TRUE

\* if final_selection.is_empty()
NeedsRetry(final_selection) == final_selection = <<>>

\* (variant: the list is inserted even when it is empty)
InsertChoices_always(result, pm_type, session_routing_choice) ==
    [result EXCEPT ![pm_type] = Some(session_routing_choice)]

\* if !session_routing_choice.is_empty() { result.insert(pm_type, session_routing_choice) }
InsertChoices(result, pm_type, session_routing_choice) ==
    IF session_routing_choice # <<>>
    THEN [result EXCEPT ![pm_type] = Some(session_routing_choice)]
    ELSE result

\* the first perform_cgraph_filtering(chosen_connectors, ..).await?
SessionFilter ==
    /\ se_pc = "filter"
    /\ \E cg \in SessionCgraphResults :
          LET backend_input == SessionBackendInput(se_part.pm_type)
              out == CgraphFilteringResult(se_part.chosen, backend_input, None, cg)
          IN  /\ PerformCgraphFiltering(backend_input, SessMerchant, se_profile, "Payment", cg)
              /\ IF out.kind = "Err"
                 THEN SessionFail(out) /\ UNCHANGED se_part
                 ELSE /\ se_part' = [se_part EXCEPT !.first = Some(out.val), !.final = out.val]
                      /\ se_pc' = IF NeedsRetry(out.val) THEN "retry" ELSE "retain"
                      /\ UNCHANGED se_ret
    /\ UNCHANGED <<se_in, se_run, se_profile, se_map, se_todo, se_log, se_result, se_prev>>
    /\ UNCHANGED <<routing_cache, notSess>>

\* final_selection is empty: the merchant default is fetched and filtered
SessionRetry ==
    /\ se_pc = "retry"
    /\ \E fetched \in DefaultConfigAnswers(se_in.default_config) :
       \E cg \in SessionCgraphResults :
          IF fetched.kind = "Err"
          THEN SessionFail(fetched) /\ UNCHANGED <<se_part, cgraph_cache>>
          ELSE LET backend_input == SessionBackendInput(se_part.pm_type)
                   out == CgraphFilteringResult(fetched.val, backend_input, None, cg)
               IN  /\ PerformCgraphFiltering(backend_input, SessMerchant, se_profile,
                                             "Payment", cg)
                   /\ IF out.kind = "Err"
                      THEN SessionFail(out) /\ UNCHANGED se_part
                      ELSE /\ se_part' = [se_part EXCEPT !.fallback = Some(fetched.val),
                                                         !.final = out.val]
                           /\ se_pc' = "retain"
                           /\ UNCHANGED se_ret
    /\ UNCHANGED <<se_in, se_run, se_profile, se_map, se_todo, se_log, se_result, se_prev>>
    /\ UNCHANGED <<routing_cache, notSess>>

\* Ok(None) / Ok(Some(final_selection)), then the token loop and result.insert
SessionRetain ==
    /\ se_pc = "retain"
    /\ LET pm_type == se_part.pm_type
           routable_connector_choice_option ==
               IF se_part.final = <<>> THEN None ELSE Some(se_part.final)
           session_routing_choice ==
               IF routable_connector_choice_option = None THEN Ok(<<>>)
               ELSE RetainAllowed(Unwrap(routable_connector_choice_option),
                                  se_map[pm_type], pm_type)
       IN  IF session_routing_choice.kind = "Err"
           THEN SessionFail(session_routing_choice) /\ UNCHANGED <<se_log, se_result>>
           ELSE /\ se_log' = [se_log EXCEPT ![pm_type] =
                                 [part |-> se_part, retained |-> session_routing_choice.val]]
                /\ se_result' = InsertChoices(se_result, pm_type, session_routing_choice.val)
                /\ se_pc' = "select"
                /\ UNCHANGED se_ret
    /\ UNCHANGED <<se_in, se_run, se_profile, se_map, se_todo, se_part, se_prev>>
    /\ UNCHANGED <<routing_cache, cgraph_cache, notSess>>

\* the loop is over: Ok(result)
SessionReturn ==
    /\ se_pc = "select"
    /\ se_todo = {}
    /\ se_pc' = "done"
    /\ se_ret' = Ok(se_result)
    /\ UNCHANGED <<se_in, se_run, se_profile, se_map, se_todo, se_part, se_log, se_result,
                   se_prev>>
    /\ UNCHANGED <<routing_cache, cgraph_cache, notSess>>

NoLog == [pmt \in PaymentMethodTypes |-> NoCall]

\* after a run that returned a map, the same attempt is routed again against
\* the same store rows and the caches as the first run left them
SessionAgain ==
    /\ se_pc = "done"
    /\ se_run = 1
    /\ se_ret.kind = "Ok"
    /\ se_run' = 2
    /\ se_prev' = se_ret
    /\ se_pc' = "start"
    /\ se_profile' = None
    /\ se_map' = EmptyPmTypeMap
    /\ se_todo' = {}
    /\ se_part' = NoCall
    /\ se_log' = NoLog
    /\ se_result' = EmptyResult
    /\ se_ret' = NoCall
    /\ UNCHANGED <<se_in, routing_cache, cgraph_cache, notSess>>

SessionInit ==
    /\ se_in \in [chosen : SeqsUpTo(SessionItems, MaxSession),
                  algorithm_id : {None} \cup {Some(id) : id \in SessionAlgorithmIds},
                  default_config : SessionDefaults,
                  graph : SessionGraphs,
                  attempt_id : Seeds]
    /\ se_run = 1
    /\ se_pc = "start"
    /\ se_profile = None
    /\ se_map = EmptyPmTypeMap
    /\ se_todo = {}
    /\ se_part = NoCall
    /\ se_log = NoLog
    /\ se_result = EmptyResult
    /\ se_ret = NoCall
    /\ se_prev = NoCall
    /\ CachesEmpty
    /\ SplitIdle
    /\ EligIdle
    /\ CacheIdle
    /\ StaticIdle
    /\ GraphIdle
    /\ WebhookIdle

SessionNext ==
    \/ SessionStart
    \/ SessionSelect
    \/ SessionFilter
    \/ SessionRetry
    \/ SessionRetain
    \/ SessionReturn
    \/ SessionAgain

SpecSession == SessionInit /\ [][SessionNext]_vars

(***************************************************************************)
(* perform_static_routing_v1 and perform_straight_through_routing          *)
(***************************************************************************)
StaticMerchant == <<"m1">>

\* StraightThroughAlgorithm: Single(conn), Priority(conns), VolumeSplit(splits)
StraightThroughAlgorithm(variant, data) ==
    [type |-> "StraightThroughAlgorithm", variant |-> variant, data |-> data]

StraightThroughAlgorithms ==
    {StraightThroughAlgorithm("single", c) : c \in DefaultChoices} \cup
    {StraightThroughAlgorithm("priority", l) : l \in SeqsUpTo(DefaultChoices, MaxDefault)} \cup
    {StraightThroughAlgorithm("volume_split", l) :
        l \in {<<>>,
               <<[connector |-> Choice("A", None), split |-> 0]>>,
               <<[connector |-> Choice("A", None), split |-> 1],
                 [connector |-> Choice("B", None), split |-> 1]>>}}

CredsIdentifiers == {None, Some("creds_1")}

\* the calls the model makes
StaticCalls ==
    [op : {"static"},
     algorithm_id : {None} \cup {Some(id) : id \in AlgorithmIds},
     payment_data : {d \in [transaction : TransactionTypes,
                                profile_id : {None, Some(CacheProfile)},
                                metadata : Metadatas,
                                payment_method_type : PaymentMethodTypes,
                                context_ok : {TRUE}] :
                        d.transaction = "Payout" => d.profile_id # None},
     default_config : SeqsUpTo(DefaultChoices, MaxDefault)]
    \cup
    [op : {"straight"}, algorithm : StraightThroughAlgorithms,
     creds_identifier : CredsIdentifiers]

\* (variant: a failed fetch of the default config counts as an empty config)
DefaultOrFail_soft(fetched) ==
    IF fetched.kind = "Err" THEN Ok(<<>>) ELSE Ok(fetched.val)

\* get_merchant_default_config(..).await.change_context(FallbackConfigFetchFailed)?;
\* return Ok(fallback_config)
DefaultOrFail(fetched) ==
    IF fetched.kind = "Err" THEN Err("FallbackConfigFetchFailed") ELSE Ok(fetched.val)

\* match transaction_data { Payment(payment_data) => make_dsl_input(payment_data)?,
\*                          Payout(payout_data) => make_dsl_input_for_payouts(payout_data)? }
StaticBackendInput(transaction_data) ==
    IF transaction_data.transaction = "Payment" THEN MakeDslInput(transaction_data)
    ELSE MakeDslInputForPayouts(transaction_data)

\* (variant: a Priority list is cut to its first connector)
StaticDispatch_head(cached_algorithm, transaction_data, raw, checks) ==
    IF cached_algorithm.variant = "single" THEN Ok(<<cached_algorithm.data>>)
    ELSE IF cached_algorithm.variant = "priority"
    THEN Ok(SubSeq(cached_algorithm.data, 1, 1))
    ELSE IF cached_algorithm.variant = "volume_split"
    THEN SplitOr(cached_algorithm.data, raw, checks, "ConnectorSelectionFailed")
    ELSE LET backend_input == StaticBackendInput(transaction_data)
         IN  IF backend_input.kind = "Err" THEN backend_input
             ELSE ExecuteDslAndGetConnectorV1(backend_input.val, cached_algorithm.data,
                                              raw, checks)

\* the match on cached_algorithm in perform_static_routing_v1
StaticDispatch(cached_algorithm, transaction_data, raw, checks) ==
    IF cached_algorithm.variant = "single" THEN Ok(<<cached_algorithm.data>>)
    ELSE IF cached_algorithm.variant = "priority" THEN Ok(cached_algorithm.data)
    ELSE IF cached_algorithm.variant = "volume_split"
    THEN SplitOr(cached_algorithm.data, raw, checks, "ConnectorSelectionFailed")
    ELSE LET backend_input == StaticBackendInput(transaction_data)
         IN  IF backend_input.kind = "Err" THEN backend_input
             ELSE ExecuteDslAndGetConnectorV1(backend_input.val, cached_algorithm.data,
                                              raw, checks)

\* (variant: Single uses the connector's own credentials when an identifier is given)
PerformStraightThroughRouting_flag(algorithm, creds_identifier, raw, checks) ==
    IF algorithm.variant = "single"
    THEN Ok(<<(<<algorithm.data>>), creds_identifier # None>>)
    ELSE IF algorithm.variant = "priority" THEN Ok(<<algorithm.data, TRUE>>)
    ELSE LET split == SplitOr(algorithm.data, raw, checks, "ConnectorSelectionFailed")
         IN  IF split.kind = "Ok" THEN Ok(<<split.val, TRUE>>) ELSE split

\* perform_straight_through_routing: (connectors, flag)
PerformStraightThroughRouting(algorithm, creds_identifier, raw, checks) ==
    IF algorithm.variant = "single"
    THEN Ok(<<(<<algorithm.data>>), creds_identifier = None>>)
    ELSE IF algorithm.variant = "priority" THEN Ok(<<algorithm.data, TRUE>>)
    ELSE LET split == SplitOr(algorithm.data, raw, checks, "ConnectorSelectionFailed")
         IN  IF split.kind = "Ok" THEN Ok(<<split.val, TRUE>>) ELSE split

StaticReturn(result) ==
    /\ st_pc' = "done"
    /\ st_ret' = result

\* perform_static_routing_v1 up to the match: profile_id, then the default
\* config (no algorithm_id) or ensure_algorithm_cached_v1
StaticResolve ==
    /\ st_pc = "start"
    /\ st_in.op = "static"
    /\ LET profile_id == st_in.payment_data.profile_id
       IN  IF profile_id = None
           THEN /\ StaticReturn(Err("ProfileIdMissing"))
                /\ UNCHANGED <<st_cached, st_read, st_fetched, routing_cache>>
           ELSE IF st_in.algorithm_id = None
           THEN \E fetched \in DefaultConfigAnswers(st_in.default_config) :
                   /\ st_fetched' = Some(fetched)
                   /\ StaticReturn(DefaultOrFail(fetched))
                   /\ UNCHANGED <<st_cached, st_read, routing_cache>>
           ELSE \E found \in StoreAnswers(profile_id, Unwrap(st_in.algorithm_id)) :
                   LET cached_algorithm ==
                           EnsureAlgorithmCachedV1(StaticMerchant, Unwrap(st_in.algorithm_id),
                                                   profile_id, st_in.payment_data.transaction,
                                                   found)
                   IN  /\ EnsureAlgorithmPublishes(StaticMerchant, profile_id,
                                                   st_in.payment_data.transaction,
                                                   cached_algorithm)
                       /\ st_read' = TRUE
                       /\ UNCHANGED st_fetched
                       /\ IF cached_algorithm.kind = "Err"
                          THEN StaticReturn(cached_algorithm) /\ UNCHANGED st_cached
                          ELSE /\ st_cached' = Some(cached_algorithm.val)
                               /\ st_pc' = "dispatch"
                               /\ UNCHANGED st_ret
    /\ UNCHANGED <<st_in, st_run, notStatic>>

\* (variant: the volume split reorders the cached list itself)
StaticRoute_inPlace ==
    /\ st_pc = "dispatch"
    /\ \E raw \in ThreadDraws :
          LET result == StaticDispatch(Unwrap(st_cached), st_in.payment_data, raw, vs_checks)
              key == RoutingKey(st_in.payment_data.transaction, StaticMerchant,
                                Unwrap(st_in.payment_data.profile_id))
              splits == Unwrap(st_cached).data
          IN  /\ StaticReturn(result)
              /\ IF Unwrap(st_cached).variant = "volume_split" /\ result.kind = "Ok"
                 THEN RoutingPush(key,
                          CachedAlgorithm("volume_split",
                              [i \in 1..Len(splits) |->
                                  CHOOSE split \in {splits[j] : j \in 1..Len(splits)} :
                                      split.connector = result.val[i]]))
                 ELSE UNCHANGED routing_cache
    /\ UNCHANGED <<st_in, st_run, st_cached, st_read, st_fetched, notStatic>>

\* Ok(match cached_algorithm.as_ref() { .. })
StaticRoute ==
    /\ st_pc = "dispatch"
    /\ \E raw \in ThreadDraws :
          StaticReturn(StaticDispatch(Unwrap(st_cached), st_in.payment_data, raw, vs_checks))
    /\ UNCHANGED <<st_in, st_run, st_cached, st_read, st_fetched, routing_cache, notStatic>>

\* a call of perform_straight_through_routing
StraightThrough ==
    /\ st_pc = "start"
    /\ st_in.op = "straight"
    /\ \E raw \in ThreadDraws :
          StaticReturn(PerformStraightThroughRouting(st_in.algorithm, st_in.creds_identifier,
                                                     raw, vs_checks))
    /\ UNCHANGED <<st_in, st_run, st_cached, st_read, st_fetched, routing_cache, notStatic>>

\* the same call is made once more, now against the cache the first one left
StaticAgain ==
    /\ st_pc = "done"
    /\ st_run = 1
    /\ st_run' = 2
    /\ st_pc' = "start"
    /\ st_cached' = None
    /\ st_read' = FALSE
    /\ st_fetched' = None
    /\ st_ret' = NoCall
    /\ UNCHANGED <<st_in, routing_cache, notStatic>>

StaticInit ==
    /\ st_in \in StaticCalls
    /\ st_run = 1
    /\ st_pc = "start"
    /\ st_cached = None
    /\ st_read = FALSE
    /\ st_fetched = None
    /\ st_ret = NoCall
    /\ CachesEmpty
    /\ SplitIdle
    /\ EligIdle
    /\ CacheIdle
    /\ SessIdle
    /\ GraphIdle
    /\ WebhookIdle

StaticNext ==
    \/ StaticResolve
    \/ StaticRoute
    \/ StraightThrough
    \/ StaticAgain

SpecStatic == StaticInit /\ [][StaticNext]_vars

(***************************************************************************)
(* refresh_cgraph_cache: from the account rows and pm_filters to the graph *)
(***************************************************************************)
ConnectorTypes ==
    {"PaymentProcessor", "PaymentVas", "PaymentMethodAuth", "PayoutProcessor",
     "AuthenticationProcessor", "FinOperations"}

\* domain::MerchantConnectorAccount (the fields the refresh reads); convertible
\* says whether the row converts to a MerchantConnectorResponse
Mca(connector_name, connector_type, profile_id, disabled, convertible) ==
    [connector_name |-> connector_name, connector_type |-> connector_type,
     profile_id |-> profile_id, disabled |-> disabled, convertible |-> convertible]

GraphProfile == <<"p1">>
OtherProfile == <<"p2">>

\* the rows of a merchant with accounts of every type, in two profiles
AllAccounts ==
    <<Mca("stripe", "PaymentProcessor", GraphProfile, FALSE, TRUE),
      Mca("adyen", "PaymentProcessor", OtherProfile, FALSE, TRUE),
      Mca("adyen", "PaymentProcessor", GraphProfile, TRUE, TRUE),
      Mca("wise", "PayoutProcessor", GraphProfile, FALSE, TRUE),
      Mca("wise", "PayoutProcessor", OtherProfile, FALSE, TRUE),
      Mca("stripe", "PayoutProcessor", GraphProfile, TRUE, TRUE),
      Mca("riskified", "PaymentVas", GraphProfile, FALSE, TRUE),
      Mca("plaid", "PaymentMethodAuth", GraphProfile, FALSE, TRUE),
      Mca("threedsecureio", "AuthenticationProcessor", GraphProfile, FALSE, TRUE),
      Mca("taxjar", "FinOperations", GraphProfile, FALSE, TRUE)>>

\* the merchant_connector_account tables the model starts from
AccountStores ==
    {<<>>,
     AllAccounts,
     Append(AllAccounts, Mca("adyen", "PaymentProcessor", GraphProfile, FALSE, FALSE)),
     <<Mca("wise", "PayoutProcessor", GraphProfile, FALSE, FALSE)>> \o AllAccounts}

\* store.find_merchant_connector_account_by_merchant_id_and_disabled_list(
\*     merchant_id, get_disabled, key_store)
FindMerchantConnectorAccounts(store, get_disabled) ==
    SelectSeq(store, LAMBDA mca : mca.disabled = get_disabled)

\* merchant_connector_accounts.retain(..) by transaction type
RetainForTransaction(accounts, transaction_type) ==
    IF transaction_type = "Payment"
    THEN SelectSeq(accounts, LAMBDA mca :
             /\ mca.connector_type # "PaymentVas"
             /\ mca.connector_type # "PaymentMethodAuth"
             /\ mca.connector_type # "PayoutProcessor"
             /\ mca.connector_type # "AuthenticationProcessor")
    ELSE SelectSeq(accounts, LAMBDA mca : mca.connector_type = "PayoutProcessor")

\* let connector_type = match transaction_type { .. }
ConnectorTypeFor(transaction_type) ==
    IF transaction_type = "Payment" THEN "PaymentProcessor" ELSE "PayoutProcessor"

\* payments_oss::helpers::filter_mca_based_on_profile_and_connector_type
FilterMcaBasedOnProfileAndConnectorType(accounts, profile_id, connector_type) ==
    SelectSeq(accounts, LAMBDA mca :
        /\ profile_id # None => mca.profile_id = Unwrap(profile_id)
        /\ mca.connector_type = connector_type)

\* (variant: the helper is called without the profile id)
IncludedAccounts_anyProfile(accounts, transaction_type, profile_id) ==
    FilterMcaBasedOnProfileAndConnectorType(
        RetainForTransaction(accounts, transaction_type), None,
        ConnectorTypeFor(transaction_type))

\* the accounts a refresh for (transaction_type, profile_id) builds the graph from
IncludedAccounts(accounts, transaction_type, profile_id) ==
    FilterMcaBasedOnProfileAndConnectorType(
        RetainForTransaction(accounts, transaction_type), profile_id,
        ConnectorTypeFor(transaction_type))

\* admin_api::MerchantConnectorResponse::foreign_try_from(mca)
ForeignTryFrom(mca) ==
    IF mca.convertible
    THEN Ok([connector_name |-> mca.connector_name, connector_type |-> mca.connector_type,
             profile_id |-> mca.profile_id, disabled |-> mca.disabled])
    ELSE Err("ConversionError")

\* .into_iter().map(foreign_try_from).collect::<Result<Vec<_>, _>>()
\*     .change_context(KgraphCacheRefreshFailed)
RECURSIVE ApiMcas(_)
ApiMcas(accounts) ==
    IF accounts = <<>> THEN Ok(<<>>)
    ELSE LET head == ForeignTryFrom(Head(accounts))
             rest == ApiMcas(Tail(accounts))
         IN  IF head.kind = "Err" \/ rest.kind = "Err" THEN Err("KgraphCacheRefreshFailed")
             ELSE Ok(<<head.val>> \o rest.val)

\* the names api_enums::RoutableConnectors::from_str accepts
RoutableConnectorNames == {"stripe", "adyen", "wise"}

\* the keys the pm_filters maps of the model use
PmFilterKeys == {"default", "stripe", "bogus", "bogus2"}

\* a pm_filters map with the given keys: key -> its filter settings
PmFilters(keys) == [key \in keys |-> [settings_of |-> key]]

PmFilterMaps ==
    {PmFilters({}), PmFilters({"default"}), PmFilters({"default", "stripe"}),
     PmFilters({"stripe", "bogus"}), PmFilters({"default", "bogus", "bogus2"})}

\* errors::RoutingError::InvalidConnectorName(key)
InvalidConnectorName(key) ==
    [default |-> "InvalidConnectorName(default)", stripe |-> "InvalidConnectorName(stripe)",
     bogus |-> "InvalidConnectorName(bogus)", bogus2 |-> "InvalidConnectorName(bogus2)"][key]

\* api_enums::RoutableConnectors::from_str(&key)
RoutableConnectorsFromStr(key) ==
    IF key \in RoutableConnectorNames THEN Ok(key) ELSE Err("ParseError")

\* value.foreign_into() / ForeignFrom::foreign_from: settings to graph filter
ForeignInto(value) == [filter_of |-> value.settings_of]

\* the entries of `keys`, converted: the first key (in the map's iteration
\* order) that is no connector name ends the collect with InvalidConnectorName
CollectConfigs(pm_filters, keys) ==
    LET unknown == {key \in keys : RoutableConnectorsFromStr(key).kind = "Err"}
    IN  IF unknown # {}
        THEN {Err(InvalidConnectorName(key)) : key \in unknown}
        ELSE {Ok([key \in keys |-> ForeignInto(pm_filters[key])])}

\* (variant: the key "default" is converted like a connector name)
ConnectorConfigs_withDefault(pm_filters) == CollectConfigs(pm_filters, DOMAIN pm_filters)

\* connector_configs: pm_filters without "default", keyed by RoutableConnectors;
\* the set of results the iteration order of the map allows
ConnectorConfigs(pm_filters) == CollectConfigs(pm_filters, DOMAIN pm_filters \ {"default"})

\* default_configs: pm_filters.get("default").cloned().map(foreign_from)
DefaultConfigs(pm_filters) ==
    IF "default" \in DOMAIN pm_filters THEN Some(ForeignInto(pm_filters["default"]))
    ELSE None

\* CountryCurrencyFilter { connector_configs, default_configs }
CountryCurrencyFilter(connector_configs, default_configs) ==
    [connector_configs |-> connector_configs, default_configs |-> default_configs]

\* mca_graph::make_mca_graph(api_mcas, &config_pm_filters): the graph of the
\* accounts under the filters, or a construction error
MakeMcaGraph(api_mcas, config_pm_filters) ==
    {Ok([accounts |-> api_mcas, config_pm_filters |-> config_pm_filters]),
     Err("GraphError")}

\* refresh_cgraph_cache between the account fetch and the push: the results
\* the rows and the configuration allow
BuildCgraph(rows, pm_filters, transaction_type, profile_id) ==
    LET api_mcas == ApiMcas(IncludedAccounts(rows, transaction_type, profile_id))
    IN  IF api_mcas.kind = "Err" THEN {api_mcas}
        ELSE UNION {IF connector_configs.kind = "Err" THEN {connector_configs}
                    ELSE {IF cgraph.kind = "Err" THEN Err("KgraphCacheRefreshFailed")
                          ELSE cgraph :
                             cgraph \in MakeMcaGraph(api_mcas.val,
                                           CountryCurrencyFilter(connector_configs.val,
                                                                 DefaultConfigs(pm_filters)))} :
                       connector_configs \in ConnectorConfigs(pm_filters)}

(***************************************************************************)
(* get_merchant_cgraph and refresh_cgraph_cache as a call in steps         *)
(***************************************************************************)
\* get_merchant_cgraph(key_store, profile_id, transaction_type), or
\* refresh_cgraph_cache called with the key of GraphProfile
GraphCalls ==
    [op : {"get", "refresh"}, transaction_type : TransactionTypes,
     merchant_id : MerchantIds, profile_id : {None, Some(GraphProfile)}]

\* whose entry the call's key names: (transaction type, merchant, profile)
GraphTriple(call) ==
    <<call.transaction_type, call.merchant_id,
      IF call.profile_id = None THEN GraphProfile ELSE Unwrap(call.profile_id)>>

GraphKey(call) == CgraphKey(GraphTriple(call)[1], GraphTriple(call)[2], GraphTriple(call)[3])

GraphReturn(result) ==
    /\ gr_pc' = "done"
    /\ gr_ret' = result

\* get_merchant_cgraph up to get_val(..).await (profile_id is required), or
\* the entry into refresh_cgraph_cache
GraphStart ==
    /\ gr_pc = "start"
    /\ IF gr_call.op = "refresh"
       THEN gr_pc' = "fetch" /\ gr_tried' = TRUE /\ UNCHANGED gr_ret
       ELSE IF gr_call.profile_id = None
       THEN GraphReturn(Err("ProfileIdMissing")) /\ UNCHANGED gr_tried
       ELSE gr_pc' = "lookup" /\ UNCHANGED <<gr_ret, gr_tried>>
    /\ UNCHANGED <<gr_store, gr_filters, gr_call, gr_run, gr_rows, gr_local, gr_prev,
                   gr_owner, cgraph_cache, notGraph>>

\* get_val(..).await returns: a hit is returned, a miss refreshes
GraphLookup ==
    /\ gr_pc = "lookup"
    /\ IF CgraphGetVal(GraphKey(gr_call)) # Absent
       THEN GraphReturn(Ok(CgraphGetVal(GraphKey(gr_call)))) /\ UNCHANGED gr_tried
       ELSE gr_pc' = "fetch" /\ gr_tried' = TRUE /\ UNCHANGED gr_ret
    /\ UNCHANGED <<gr_store, gr_filters, gr_call, gr_run, gr_rows, gr_local, gr_prev,
                   gr_owner, cgraph_cache, notGraph>>

\* (variant: a failed fetch publishes a graph of no accounts and fails)
GraphFetch_publishEmpty ==
    /\ gr_pc = "fetch"
    /\ \/ /\ GraphReturn(Err("KgraphCacheRefreshFailed"))
          /\ CgraphPush(GraphKey(gr_call),
                        [accounts |-> <<>>,
                         config_pm_filters |-> CountryCurrencyFilter(<<>>, None)])
          /\ UNCHANGED gr_rows
       \/ /\ gr_rows' = Some(FindMerchantConnectorAccounts(gr_store, FALSE))
          /\ gr_pc' = "build"
          /\ UNCHANGED <<gr_ret, cgraph_cache>>
    /\ UNCHANGED <<gr_store, gr_filters, gr_call, gr_run, gr_local, gr_tried, gr_prev,
                   gr_owner, notGraph>>

\* the account fetch returns the enabled rows, or fails
GraphFetch ==
    /\ gr_pc = "fetch"
    /\ \/ GraphReturn(Err("KgraphCacheRefreshFailed")) /\ UNCHANGED gr_rows
       \/ /\ gr_rows' = Some(FindMerchantConnectorAccounts(gr_store, FALSE))
          /\ gr_pc' = "build"
          /\ UNCHANGED gr_ret
    /\ UNCHANGED <<gr_store, gr_filters, gr_call, gr_run, gr_local, gr_tried, gr_prev,
                   gr_owner, cgraph_cache, notGraph>>

\* retain, filter, convert, pm_filters, make_mca_graph
GraphBuild ==
    /\ gr_pc = "build"
    /\ \E built \in BuildCgraph(Unwrap(gr_rows), gr_filters, gr_call.transaction_type,
                                 gr_call.profile_id) :
          IF built.kind = "Err" THEN GraphReturn(built) /\ UNCHANGED gr_local
          ELSE gr_local' = Some(built.val) /\ gr_pc' = "push" /\ UNCHANGED gr_ret
    /\ UNCHANGED <<gr_store, gr_filters, gr_call, gr_run, gr_rows, gr_tried, gr_prev,
                   gr_owner, cgraph_cache, notGraph>>

\* CGRAPH_CACHE.push(CacheKey { key, prefix }, cgraph).await; Ok(cgraph)
GraphPush ==
    /\ gr_pc = "push"
    /\ CgraphPush(GraphKey(gr_call), Unwrap(gr_local))
    /\ gr_owner' = [gr_owner EXCEPT ![GraphKey(gr_call)] = Some(GraphTriple(gr_call))]
    /\ GraphReturn(Ok(Unwrap(gr_local)))
    /\ UNCHANGED <<gr_store, gr_filters, gr_call, gr_run, gr_rows, gr_local, gr_tried,
                   gr_prev, notGraph>>

\* the next call, after the first has returned
GraphAgain ==
    /\ gr_pc = "done"
    /\ gr_run = 1
    /\ gr_run' = 2
    /\ gr_prev' = [call |-> gr_call, ret |-> gr_ret, tried |-> gr_tried]
    /\ gr_call' \in GraphCalls
    /\ gr_pc' = "start"
    /\ gr_rows' = None
    /\ gr_local' = None
    /\ gr_ret' = NoCall
    /\ gr_tried' = FALSE
    /\ UNCHANGED <<gr_store, gr_filters, gr_owner, cgraph_cache, notGraph>>

GraphInit ==
    /\ gr_store \in AccountStores
    /\ gr_filters \in PmFilterMaps
    /\ gr_call \in GraphCalls
    /\ gr_run = 1
    /\ gr_pc = "start"
    /\ gr_rows = None
    /\ gr_local = None
    /\ gr_ret = NoCall
    /\ gr_tried = FALSE
    /\ gr_prev = NoCall
    /\ gr_owner = [key \in CgraphKeys |-> None]
    /\ CachesEmpty
    /\ SplitIdle
    /\ EligIdle
    /\ CacheIdle
    /\ SessIdle
    /\ StaticIdle
    /\ WebhookIdle

GraphNext ==
    \/ GraphStart
    \/ GraphLookup
    \/ GraphFetch
    \/ GraphBuild
    \/ GraphPush
    \/ GraphAgain

SpecGraph == GraphInit /\ [][GraphNext]_vars

(***************************************************************************)
(* is_webhook_event_disabled (core/webhooks/utils.rs)                      *)
(***************************************************************************)
\* the api::IncomingWebhookEvent values the model draws
WebhookEvents == {"PaymentIntentSuccess", "RefundSuccess"}

WebhookMerchants == {"m1", "m2"}

WebhookConnectors == {"stripe"}

\* format!("whconf_disabled_events_{merchant_id}_{connector_id}")
WebhookRedisKey(merchant_id, connector_id) ==
    <<"whconf_disabled_events", "_", merchant_id, "_", connector_id>>

WebhookKeys ==
    {WebhookRedisKey(m, c) : m \in WebhookMerchants, c \in WebhookConnectors}

\* stored texts: a JSON array of event names, or a text that is no such array
JsonArray(items) == [kind |-> "array", items |-> items]
NotAConfig == [kind |-> "other"]
Nil == [kind |-> "nil"]

ConfigTexts ==
    {JsonArray(<<>>), JsonArray(<<"PaymentIntentSuccess">>),
     JsonArray(<<"RefundSuccess", "PaymentIntentSuccess", "RefundSuccess">>), NotAConfig}

\* serde_json::from_str::<api::MerchantWebhookConfig>: the set of the array's events
ParseMerchantWebhookConfig(text) ==
    IF text.kind = "array"
    THEN Ok({text.items[i] : i \in 1..Len(text.items)})
    ELSE Err("JsonDeserializationFailed")

\* get_and_deserialize_key(db, &redis_key, "MerchantWebhookConfig"): what the
\* lookup can return for the value redis holds (redis itself may be unreachable)
GetAndDeserializeKey(redis, key) ==
    {Err("RedisConnectionError")} \cup
    {IF redis[key] = Nil THEN Err("NotFound") ELSE ParseMerchantWebhookConfig(redis[key])}

\* db.find_config_by_key(&redis_key): the row's config column, or a failure
FindConfigByKey(configs, key) ==
    {Err("StorageError")} \cup
    {IF configs[key] = None THEN Err("ValueNotFound") ELSE Ok(Unwrap(configs[key]))}

\* (variant: an event whose config cannot be fetched or parsed counts as disabled)
DisabledFromDb_failClosed(found, event) ==
    IF found.kind = "Err" THEN TRUE
    ELSE LET parsed == ParseMerchantWebhookConfig(found.val)
         IN  IF parsed.kind = "Err" THEN TRUE ELSE event \in parsed.val

\* .map(|config| match from_str(..) { Ok(set) => set.contains(event), Err => false })
\* .unwrap_or_else(|err| false)
DisabledFromDb(found, event) ==
    IF found.kind = "Err" THEN FALSE
    ELSE LET parsed == ParseMerchantWebhookConfig(found.val)
         IN  IF parsed.kind = "Err" THEN FALSE ELSE event \in parsed.val

WebhookCalls ==
    [merchant_id : WebhookMerchants, connector_id : WebhookConnectors, event : WebhookEvents]

WebhookKey(call) == WebhookRedisKey(call.merchant_id, call.connector_id)

\* the bool the function returns
WebhookReturn(disabled) ==
    /\ wh_pc' = "done"
    /\ wh_ret' = [kind |-> "Returned", val |-> disabled]

\* get_and_deserialize_key(..).await returns: Ok answers from the redis config,
\* Err goes on to the database
WebhookRedisLookup ==
    /\ wh_pc = "redis"
    /\ \E res \in GetAndDeserializeKey(wh_redis, WebhookKey(wh_call)) :
          /\ wh_redis_res' = res
          /\ IF res.kind = "Ok"
             THEN WebhookReturn(wh_call.event \in res.val)
             ELSE wh_pc' = "db" /\ UNCHANGED wh_ret
    /\ UNCHANGED <<wh_redis, wh_configs, wh_call, wh_run, wh_db_res, wh_prev, notWebhook>>

\* db.find_config_by_key(&redis_key).await returns and the function answers
WebhookDbFetch ==
    /\ wh_pc = "db"
    /\ \E found \in FindConfigByKey(wh_configs, WebhookKey(wh_call)) :
          /\ wh_db_res' = found
          /\ WebhookReturn(DisabledFromDb(found, wh_call.event))
    /\ UNCHANGED <<wh_redis, wh_configs, wh_call, wh_run, wh_redis_res, wh_prev,
                   notWebhook>>

\* the next call, after the first has returned
WebhookAgain ==
    /\ wh_pc = "done"
    /\ wh_run = 1
    /\ wh_run' = 2
    /\ wh_prev' = [call |-> wh_call, redis_res |-> wh_redis_res, db_res |-> wh_db_res,
                   ret |-> wh_ret]
    /\ wh_call' \in WebhookCalls
    /\ wh_pc' = "redis"
    /\ wh_redis_res' = NoCall
    /\ wh_db_res' = NoCall
    /\ wh_ret' = NoCall
    /\ UNCHANGED <<wh_redis, wh_configs, notWebhook>>

WebhookInit ==
    /\ wh_redis \in [WebhookKeys -> {Nil} \cup ConfigTexts]
    /\ wh_configs \in [WebhookKeys -> {None} \cup {Some(t) : t \in ConfigTexts}]
    /\ wh_call \in WebhookCalls
    /\ wh_run = 1
    /\ wh_pc = "redis"
    /\ wh_redis_res = NoCall
    /\ wh_db_res = NoCall
    /\ wh_ret = NoCall
    /\ wh_prev = NoCall
    /\ CachesEmpty
    /\ SplitIdle
    /\ EligIdle
    /\ CacheIdle
    /\ SessIdle
    /\ StaticIdle
    /\ GraphIdle

WebhookNext ==
    \/ WebhookRedisLookup
    \/ WebhookDbFetch
    \/ WebhookAgain

SpecWebhook == WebhookInit /\ [][WebhookNext]_vars

(***************************************************************************)
(* Properties of perform_volume_split (under SpecSplit)                    *)
(***************************************************************************)
\* number of positions of seq that hold x
Count(seq, x) == Cardinality({i \in 1..Len(seq) : seq[i] = x})

SplitCalled == vs_last.out # NoCall

AllWeightsZero == \A i \in 1..Len(vs_splits) : vs_splits[i].split = 0

\* C5: whenever perform_volume_split succeeds, the returned list has the
\* input's length and multiset of connectors, the sampled element is at
\* index 0, and the other elements follow in their input order.
C5_VolumeSplitPermutation ==
    (SplitCalled /\ vs_last.out.kind = "Ok") =>
        LET input == Connectors(vs_splits)
            res == vs_last.out.val
            idx == vs_last.out.idx
        IN  /\ Len(res) = Len(input)
            /\ \A c \in {input[i] : i \in 1..Len(input)} \cup {res[i] : i \in 1..Len(res)} :
                   Count(res, c) = Count(input, c)
            /\ idx \in 0..(Len(input) - 1)
            /\ res[1] = input[idx + 1]
            /\ \A j \in 1..idx : res[j + 1] = input[j]
            /\ \A j \in (idx + 2)..Len(input) : res[j] = input[j]

\* the last of three splits won and the order of the returned list differs
\* from the input's
C5_Witness ==
    /\ SplitCalled /\ vs_last.out.kind = "Ok"
    /\ Len(vs_splits) = 3 /\ vs_last.out.idx = 2
    /\ vs_last.out.val # Connectors(vs_splits)
    /\ vs_splits[1].connector # vs_splits[2].connector

C7_EmptyOrZeroFails ==
    (SplitCalled /\ (vs_splits = <<>> \/ AllWeightsZero)) =>
        vs_last.out = Err("VolumeSplitFailed")

\* a call on a non-empty list of zero weights has failed
C7_Witness ==
    /\ SplitCalled /\ Len(vs_splits) >= 2 /\ AllWeightsZero
    /\ vs_last.out = Err("VolumeSplitFailed")

(***************************************************************************)
(* Properties of the eligibility filter and its fallback (under SpecElig)  *)
(***************************************************************************)
\* res lists exactly the positions `kept` of src, in increasing order
IsSelection(res, src, kept) ==
    /\ Len(res) = Cardinality(kept)
    /\ \A i \in kept : res[Cardinality({j \in kept : j <= i})] = src[i]

\* the graph judges the candidate valid for the payment
JudgedValid(graph, choice) ==
    <<choice.connector, el_in.payment_data.payment_method_type>> \in graph.allowed

\* the candidate passes the allow-list, if one was supplied
InAllowList(choice) ==
    el_in.eligible_connectors = None
    \/ choice.connector \in Unwrap(el_in.eligible_connectors)

Filtered == el_used # NoCall /\ el_used.out.kind = "Ok"

\* C1: a successful perform_cgraph_filtering returns exactly the candidates
\* that the graph judges valid and that pass the allow-list (when supplied),
\* in their input order; nothing is added.
C1_FilterIsOrderedSelection ==
    Filtered =>
        LET chosen == el_used.chosen
            graph == el_used.cg.val
        IN  IsSelection(el_used.out.val, chosen,
                        {i \in 1..Len(chosen) :
                            JudgedValid(graph, chosen[i]) /\ InAllowList(chosen[i])})

\* of two candidates the first was dropped and the second kept, under an
\* allow-list
C1_Witness ==
    /\ Filtered
    /\ Len(el_used.chosen) = 2
    /\ el_used.out.val = <<el_used.chosen[2]>>
    /\ el_used.chosen[1] # el_used.chosen[2]
    /\ el_in.eligible_connectors # None

Returned == el_pc = "done" /\ el_ret.kind = "Ok"

\* C2: when both filter passes succeed, the call returns the filtered primary
\* list followed by the filtered default entries equal to no primary entry,
\* each part in its order.
C2_PrimaryThenNewFallback ==
    (Returned /\ el_fallback.kind = "Ok") =>
        LET primary == el_primary.val
            fallback == el_fallback.val
            ret == el_ret.val
            tail == SubSeq(ret, Len(primary) + 1, Len(ret))
        IN  /\ Len(ret) >= Len(primary)
            /\ SubSeq(ret, 1, Len(primary)) = primary
            /\ IsSelection(tail, fallback,
                           {i \in 1..Len(fallback) :
                               \A j \in 1..Len(primary) : primary[j] # fallback[i]})
            /\ \A i \in 1..Len(tail) : \A j \in 1..Len(primary) : tail[i] # primary[j]

\* the filtered default holds an entry of the primary list and a new one; the
\* new one alone was appended
C2_Witness ==
    /\ Returned /\ el_fallback.kind = "Ok"
    /\ Len(el_primary.val) >= 1
    /\ Len(el_fallback.val) = 2
    /\ Contains(el_primary.val, el_fallback.val[1])
    /\ ~Contains(el_primary.val, el_fallback.val[2])
    /\ Len(el_ret.val) = Len(el_primary.val) + 1

\* C3: when the fetch of the merchant default config fails, the call succeeds
\* and returns exactly the filtered primary list.
C3_FetchFailureIsEmptyFallback ==
    (el_pc = "done" /\ el_fallback = Err("FallbackConfigFetchFailed")) =>
        /\ el_ret.kind = "Ok"
        /\ el_ret.val = el_primary.val

\* the fetch failed although a default config is stored, and the call returned
\* its primary candidates
C3_Witness ==
    /\ el_pc = "done" /\ el_fallback = Err("FallbackConfigFetchFailed")
    /\ el_in.default_config # <<>>
    /\ el_ret.kind = "Ok" /\ Len(el_ret.val) >= 1

\* C4: a failure of the fallback other than the fetch of the default config
\* (missing profile id, graph refresh failure, graph evaluation error) makes
\* the whole call return an error.
C4_OtherFallbackFailuresAreFatal ==
    (el_pc = "done" /\ el_fallback.kind = "Err"
        /\ el_fallback.err # "FallbackConfigFetchFailed") =>
        el_ret.kind = "Err"

(***************************************************************************)
(* Properties of the caches (under SpecCache)                              *)
(***************************************************************************)
TheRoutingKey == RoutingKey("Payment", CacheMerchant, CacheProfile)
TheCgraphKey == CgraphKey("Payment", CacheMerchant, CacheProfile)

\* a complete CachedAlgorithm: an Advanced one holds an interpreter
FullyCompiled(v) ==
    /\ v.type = "CachedAlgorithm"
    /\ v.variant = "advanced" => DOMAIN v.data = {"interpreter_of"}

FullyBuilt(cache, v) ==
    IF cache = "routing" THEN FullyCompiled(v) ELSE v \in CardGraphs

RoutingDone(p) == ca_pc[p] = "done" /\ ca_call[p].cache = "routing"

\* C8: the algorithm cache holds only fully compiled entries, and a load that
\* fails (row missing, data not parseable, program not compilable) returns
\* DslMissingInDb, DslParsingError, DslBackendInitError respectively and the
\* call changes no cache entry.
C8_FailedLoadPublishesNothing ==
    /\ \A k \in RoutingKeys :
          routing_cache[k] # Absent => FullyCompiled(routing_cache[k])
    /\ \A p \in Procs :
          (RoutingDone(p) /\ ca_loaded[p] # "no") =>
              LET id == ca_call[p].algorithm_id
              IN  /\ ca_ret[p].kind = "Err" => ~ca_wrote[p]
                  /\ (ca_loaded[p] = "error" \/ id = "algo_missing")
                        => ca_ret[p] = Err("DslMissingInDb")
                  /\ (ca_loaded[p] = "row" /\ id = "algo_garbage")
                        => ca_ret[p] = Err("DslParsingError")
                  /\ (ca_loaded[p] = "row" /\ id = "algo_adv_bad")
                        => ca_ret[p] = Err("DslBackendInitError")

\* a load of the uncompilable program failed while the key held an entry
\* published by the other task, and the entry is still there
C8_Witness ==
    \E p \in Procs :
        /\ RoutingDone(p)
        /\ ca_ret[p] = Err("DslBackendInitError")
        /\ ~ca_wrote[p]
        /\ routing_cache[TheRoutingKey] # Absent
        /\ ca_last["routing"] = Some(routing_cache[TheRoutingKey])

\* C9: a get that finds a value published (and not invalidated since)
\* returns exactly that value without reading the store; every value a call
\* returns and every cache entry is completely built.
C9_GetSeesLastPublished ==
    /\ \A p \in Procs :
          (ca_pc[p] = "done" /\ ca_call[p].op = "get" /\ ca_seen[p] # None) =>
              /\ ca_ret[p] = Ok(Unwrap(ca_seen[p]))
              /\ ca_loaded[p] = "no"
    /\ \A p \in Procs :
          (ca_pc[p] = "done" /\ ca_ret[p].kind = "Ok") =>
              FullyBuilt(ca_call[p].cache, ca_ret[p].val)
    /\ \A k \in RoutingKeys :
          routing_cache[k] # Absent => FullyBuilt("routing", routing_cache[k])
    /\ \A k \in CgraphKeys :
          cgraph_cache[k] # Absent => FullyBuilt("cgraph", cgraph_cache[k])

\* one task refreshed the key directly and the other task's get returned the
\* refreshed value
C9_Witness ==
    \E p \in Procs : \E q \in Procs \ {p} :
        /\ ca_pc[p] = "done" /\ ca_call[p].op = "refresh" /\ ca_ret[p].kind = "Ok"
        /\ ca_pc[q] = "done" /\ ca_call[q].op = "get" /\ ca_call[q].cache = ca_call[p].cache
        /\ ca_seen[q] # None
        /\ ca_ret[q] = ca_ret[p]
        /\ ca_loaded[q] = "no"

\* both current calls are gets of the algorithm cache that missed while the
\* other was loading, and both have returned a value
BothMissedAndReturned ==
    /\ ca_overlap
    /\ \A p \in Procs :
          /\ RoutingDone(p) /\ ca_call[p].op = "get"
          /\ ca_ret[p].kind = "Ok" /\ ca_loaded[p] = "row"

EntryIsLastPublished ==
    (ca_last["routing"] # None) =>
        routing_cache[TheRoutingKey] = Unwrap(ca_last["routing"])

\* C10 as stated: whenever two concurrent gets of one key both miss and both
\* publish, the entry is the one published last and the two returned values
\* are the same compiled algorithm.
C10_ConcurrentMissesAgree ==
    BothMissedAndReturned =>
        /\ EntryIsLastPublished
        /\ ca_ret[1] = ca_ret[2]

\* C10 amended: the entry is the one published last, and the two returned
\* values are the same compiled algorithm when both callers passed the same
\* algorithm id.
C10_ConcurrentMissesAgreeOnSameId ==
    BothMissedAndReturned =>
        /\ EntryIsLastPublished
        /\ (ca_call[1].algorithm_id = ca_call[2].algorithm_id) => (ca_ret[1] = ca_ret[2])

\* both tasks missed, loaded the same row and published
C10_Witness ==
    /\ BothMissedAndReturned
    /\ ca_call[1].algorithm_id = ca_call[2].algorithm_id
    /\ ca_ret[1] = ca_ret[2]
    /\ routing_cache[TheRoutingKey] = ca_ret[1].val

\* each cache holds nothing, or the complete value pushed last since the
\* last invalidation
CachesHoldLastPublished ==
    /\ routing_cache[TheRoutingKey] =
          (IF ca_last["routing"] = None THEN Absent ELSE Unwrap(ca_last["routing"]))
    /\ cgraph_cache[TheCgraphKey] =
          (IF ca_last["cgraph"] = None THEN Absent ELSE Unwrap(ca_last["cgraph"]))
    /\ \A k \in RoutingKeys :
          routing_cache[k] # Absent => FullyBuilt("routing", routing_cache[k])
    /\ \A k \in CgraphKeys :
          cgraph_cache[k] # Absent => FullyBuilt("cgraph", cgraph_cache[k])

\* C11: a call cancelled at a suspension point has changed no cache entry,
\* and with cancelled and running calls interleaved every entry is absent or
\* the complete value that a finished push published.
C11_CancellationLeavesCachesConsistent ==
    /\ \A p \in Procs : ca_pc[p] = "cancelled" => ~ca_wrote[p]
    /\ CachesHoldLastPublished

\* a call was cancelled at its push, after it had built its value, while the
\* other task's call on the same cache published
C11_Witness ==
    \E p \in Procs : \E q \in Procs \ {p} :
        /\ ca_pc[p] = "cancelled" /\ ca_loaded[p] = "row"
        /\ ca_pc[q] = "done" /\ ca_call[q].cache = ca_call[p].cache
        /\ ca_ret[q].kind = "Ok" /\ ca_wrote[q]
        /\ Entry(ca_call[q]) = ca_ret[q].val

(***************************************************************************)
(* Properties of session-flow routing (under SpecSession)                  *)
(***************************************************************************)
SessionDone == se_pc = "done" /\ se_ret # NoCall

SessionReturned == SessionDone /\ se_ret.kind = "Ok"

\* the connector names of a list of SessionRoutingChoice
ChoiceNames(choices) == [i \in 1..Len(choices) |-> choices[i].connector.connector_name]

\* C12: with an algorithm id present, two runs for the same attempt against
\* the same cached algorithm and graph return the same connector order in
\* every partition.
C12_SessionSplitSeededByAttempt ==
    (se_run = 2 /\ SessionReturned /\ se_in.algorithm_id # None) => se_ret = se_prev

\* the returned map, each list reduced to its connector names
ResultNames(result) ==
    [pmt \in PaymentMethodTypes |->
        IF result[pmt] = None THEN None ELSE Some(ChoiceNames(Unwrap(result[pmt])))]

\* chosen [(Card, A, T1), (Card, B, T2), (Wallet, C, T3)], Priority([B, A]),
\* a graph that accepts every connector
SessionScenario ==
    /\ se_in.chosen = <<SessionConnectorData("card", "A", "T1"),
                        SessionConnectorData("card", "B", "T2"),
                        SessionConnectorData("wallet", "C", "T3")>>
    /\ se_in.algorithm_id = Some("algo_priority_ba")
    /\ se_in.graph.allowed = SessionNames \X PaymentMethodTypes

\* C13 as stated: in the scenario the call returns {Card: [B, A], Wallet: [C]}.
C13_SessionScenarioWithWallet ==
    (SessionScenario /\ SessionReturned) =>
        ResultNames(se_ret.val) = [card |-> Some(<<"B", "A">>), wallet |-> Some(<<"C">>)]

\* C13 amended: in the scenario the call returns {Card: [B, A]}; the Wallet
\* partition is omitted, since the algorithm's candidates B and A pass the
\* filter and neither is in the Wallet partition.
C13_SessionScenario ==
    (SessionScenario /\ SessionReturned) =>
        /\ ResultNames(se_ret.val) = [card |-> Some(<<"B", "A">>), wallet |-> None]
        /\ Unwrap(se_ret.val["card"])[1].connector.get_token = "T2"
        /\ Unwrap(se_ret.val["card"])[2].connector.get_token = "T1"

\* the scenario has been routed and has returned its map
C13_Witness ==
    /\ SessionScenario /\ SessionReturned
    /\ se_log["wallet"] # NoCall
    /\ se_log["wallet"].part.final = <<Choice("B", None), Choice("A", None)>>
    /\ se_ret.val["card"] # None

\* the partitions the call has finished
Visited == {pmt \in PaymentMethodTypes : se_log[pmt] # NoCall}

\* C14: every choice returned under a payment method type P has
\* payment_method_type P and names a connector that the chosen list holds
\* with type P, with a token the chosen list gives that connector for P.
C14_ChoicesComeFromPartition ==
    SessionReturned =>
        \A pmt \in PaymentMethodTypes :
            se_ret.val[pmt] # None =>
                \A k \in 1..Len(Unwrap(se_ret.val[pmt])) :
                    LET choice == Unwrap(se_ret.val[pmt])[k]
                    IN  /\ choice.payment_method_type = pmt
                        /\ \E i \in 1..Len(se_in.chosen) :
                              se_in.chosen[i] =
                                  SessionConnectorData(pmt, choice.connector.connector_name,
                                                       choice.connector.get_token)

\* a partition's selection held a connector of another partition, which was
\* left out of the returned list
C14_Witness ==
    /\ SessionReturned
    /\ \E pmt \in Visited :
          /\ se_ret.val[pmt] # None
          /\ Len(Unwrap(se_ret.val[pmt])) < Len(se_log[pmt].part.final)
          /\ \E i \in 1..Len(se_in.chosen) : se_in.chosen[i].payment_method_type # pmt

\* C15: a partition whose selection is empty, after the filter passes or
\* after the token loop, is left out of the map and the call goes on: every
\* finished partition is in the map exactly when its retained list is
\* non-empty, a returned map covers every partition, and no list is empty.
C15_EmptyPartitionIsDropped ==
    /\ se_log # NoCall =>
          \A pmt \in Visited :
              se_result[pmt] = (IF se_log[pmt].retained = <<>> THEN None
                                ELSE Some(se_log[pmt].retained))
    /\ SessionReturned =>
          /\ PmTypes(se_map) = Visited
          /\ \A pmt \in PaymentMethodTypes : se_ret.val[pmt] # Some(<<>>)
          /\ \A pmt \in PaymentMethodTypes \ Visited : se_ret.val[pmt] = None

\* the call returned one partition's list although another partition came
\* out empty after both filter passes
C15_Witness ==
    /\ SessionReturned
    /\ \E pmt \in Visited : \E other \in Visited :
          /\ se_log[pmt].part.first = Some(<<>>) /\ se_log[pmt].part.final = <<>>
          /\ se_ret.val[pmt] = None
          /\ se_ret.val[other] # None

\* the positions of the merchant default that the graph accepts for pmt
AcceptedDefault(pmt) ==
    {i \in 1..Len(se_in.default_config) :
        <<se_in.default_config[i].connector, pmt>> \in se_in.graph.allowed}

\* the partitions that are past the first filter pass and any retry
Filtered16 ==
    {se_log[pmt].part : pmt \in Visited} \cup
    (IF se_pc = "retain" THEN {se_part} ELSE {})

\* C16: the merchant default is filtered as a retry exactly when the first
\* pass returned an empty list; a non-empty first pass is the selection,
\* an empty one makes the selection the filtered merchant default.
C16_RetryIffFirstPassEmpty ==
    se_log # NoCall =>
        \A part \in Filtered16 :
            /\ part.first # None
            /\ (part.fallback # None) <=> (Unwrap(part.first) = <<>>)
            /\ Unwrap(part.first) # <<>> => part.final = Unwrap(part.first)
            /\ Unwrap(part.first) = <<>> =>
                  /\ part.fallback = Some(se_in.default_config)
                  /\ IsSelection(part.final, se_in.default_config,
                                 AcceptedDefault(part.pm_type))

\* a first pass came out empty and the retry selected from the merchant default
C16_Witness ==
    /\ se_log # NoCall
    /\ \E pmt \in Visited :
          /\ se_log[pmt].part.first = Some(<<>>)
          /\ se_log[pmt].part.chosen # <<>>
          /\ se_log[pmt].part.final # <<>>
          /\ Len(se_log[pmt].part.final) < Len(se_in.default_config)

(***************************************************************************)
(* Properties of static and straight-through routing (under SpecStatic)    *)
(***************************************************************************)
StaticDone == st_pc = "done" /\ st_ret # NoCall /\ st_in.op = "static"

StraightDone == st_pc = "done" /\ st_ret # NoCall /\ st_in.op = "straight"

RoutingCacheEmpty == \A k \in RoutingKeys : routing_cache[k] = Absent

\* C17: with no algorithm_id (and a profile), the call returns the merchant
\* default config as the store holds it, or FallbackConfigFetchFailed when
\* the fetch fails, and it neither reads nor writes the algorithm cache.
C17_NoAlgorithmReturnsDefault ==
    (StaticDone /\ st_in.algorithm_id = None /\ st_in.payment_data.profile_id # None) =>
        /\ st_fetched # None
        /\ Unwrap(st_fetched).kind = "Ok" => st_ret = Ok(st_in.default_config)
        /\ Unwrap(st_fetched).kind = "Err" => st_ret = Err("FallbackConfigFetchFailed")
        /\ ~st_read
        /\ RoutingCacheEmpty

\* the call returned a default config of two connectors in its stored order
C17_Witness ==
    /\ StaticDone /\ st_in.algorithm_id = None
    /\ st_ret = Ok(<<Choice("B", None), Choice("A", None)>>)
    /\ ~st_read

\* C18: a resolved Priority(L) is returned as L, a resolved Single(X) as
\* [X], whatever the transaction input.
C18_PriorityAndSingleAsStored ==
    (StaticDone /\ st_cached # None) =>
        LET cached_algorithm == Unwrap(st_cached)
        IN  /\ cached_algorithm.variant = "priority" => st_ret = Ok(cached_algorithm.data)
            /\ cached_algorithm.variant = "single" => st_ret = Ok(<<cached_algorithm.data>>)

\* a Priority list of two connectors came back from a cache hit
C18_Witness ==
    /\ StaticDone /\ st_run = 2 /\ st_cached # None
    /\ Unwrap(st_cached).variant = "priority"
    /\ st_ret = Ok(<<Choice("B", None), Choice("A", None)>>)
    /\ st_in.payment_data.payment_method_type = "wallet"

\* the program's output for the call's input
StaticProgramOutput ==
    ProgramOutput(Unwrap(st_cached).data.interpreter_of,
                  StaticBackendInput(st_in.payment_data).val)

\* C19: for an Advanced algorithm, an output that is Single or Advanced
\* fails the call with DslIncorrectSelectionAlgorithm, an output Priority(L)
\* returns L, and a VolumeSplit output whose split fails gives
\* DslFinalConnectorSelectionFailed.
C19_DslOutputDispatch ==
    (StaticDone /\ st_cached # None /\ Unwrap(st_cached).variant = "advanced"
     /\ StaticProgramOutput.kind = "Ok") =>
        LET routing_output == StaticProgramOutput.val
        IN  /\ routing_output.variant \in {"single", "advanced"}
                  => st_ret = Err("DslIncorrectSelectionAlgorithm")
            /\ routing_output.variant = "priority" => st_ret = Ok(routing_output.data)
            /\ (routing_output.variant = "volume_split"
                /\ \A i \in 1..Len(routing_output.data) : routing_output.data[i].split = 0)
                  => st_ret = Err("DslFinalConnectorSelectionFailed")

\* a program whose output is a nested Advanced was executed and refused
C19_Witness ==
    /\ StaticDone /\ st_cached # None /\ Unwrap(st_cached).variant = "advanced"
    /\ StaticProgramOutput.kind = "Ok"
    /\ StaticProgramOutput.val.variant = "advanced"
    /\ st_ret = Err("DslIncorrectSelectionAlgorithm")

\* C20: straight-through routing leaves the caches and the store alone; its
\* flag is FALSE exactly for Single with a creds identifier; the list is [X]
\* for Single(X) and L for Priority(L).
C20_StraightThroughFlag ==
    StraightDone =>
        /\ RoutingCacheEmpty /\ \A k \in CgraphKeys : cgraph_cache[k] = Absent
        /\ ~st_read /\ st_fetched = None
        /\ st_in.algorithm.variant \in {"single", "priority"} => st_ret.kind = "Ok"
        /\ st_ret.kind = "Ok" =>
              /\ st_ret.val[2] = ~(st_in.algorithm.variant = "single"
                                   /\ st_in.creds_identifier # None)
              /\ st_in.algorithm.variant = "single"
                    => st_ret.val[1] = <<st_in.algorithm.data>>
              /\ st_in.algorithm.variant = "priority"
                    => st_ret.val[1] = st_in.algorithm.data

\* Single with a creds identifier returned its connector with the flag off
C20_Witness ==
    /\ StraightDone
    /\ st_in.algorithm.variant = "single" /\ st_in.creds_identifier # None
    /\ st_ret = Ok(<<(<<st_in.algorithm.data>>), FALSE>>)

(***************************************************************************)
(* Properties of the published entries (under SpecStatic)                  *)
(***************************************************************************)
RECURSIVE SplitSum(_)
SplitSum(splits) ==
    IF splits = <<>> THEN 0 ELSE Head(splits).split + SplitSum(Tail(splits))

\* the call missed the cache and its store row was a VolumeSplit
LoadedSplitRow ==
    /\ st_in.op = "static"
    /\ st_in.algorithm_id # None
    /\ Unwrap(st_in.algorithm_id) \in DOMAIN AlgorithmStore
    /\ AlgorithmStore[Unwrap(st_in.algorithm_id)].algorithm_data.kind = "volume_split"

\* C21: a stored VolumeSplit whose weights do not sum to 100 is rejected on
\* the load path: the call that loads it fails, and every VolumeSplit the
\* routing cache holds has weights summing to 100.
C21_CachedSplitsSumTo100 ==
    /\ \A k \in RoutingKeys :
          (routing_cache[k] # Absent /\ routing_cache[k].variant = "volume_split")
             => SplitSum(routing_cache[k].data) = 100
    /\ (LoadedSplitRow /\ st_pc = "dispatch")
          => SplitSum(Unwrap(st_cached).data) = 100

(***************************************************************************)
(* Properties of the input construction (under SpecStatic)                 *)
(***************************************************************************)
\* the transaction's metadata is present and is no routing-parameter object
BadMetadata ==
    /\ st_in.op = "static"
    /\ st_in.payment_data.metadata # None
    /\ ~Unwrap(st_in.payment_data.metadata).object

\* the same transaction with no metadata at all
WithoutMetadata == [st_in.payment_data EXCEPT !.metadata = None]

\* C22: a payment or payout whose metadata cannot be parsed never fails with
\* MetadataParsingError: its BackendInput is the one of the same transaction
\* without metadata, and so is the connector list the call returns.
C22_MetadataTolerance ==
    BadMetadata =>
        /\ StaticBackendInput(st_in.payment_data) = StaticBackendInput(WithoutMetadata)
        /\ StaticBackendInput(st_in.payment_data).kind = "Ok"
        /\ StaticBackendInput(st_in.payment_data).val.metadata = None
        /\ st_ret # Err("MetadataParsingError")
        /\ (StaticDone /\ st_cached # None) =>
              \E raw \in ThreadDraws :
                 st_ret = StaticDispatch(Unwrap(st_cached), WithoutMetadata, raw, vs_checks)

\* a payment with unparseable metadata was routed by the program that reads
\* the metadata, and again from the cache
C22_Witness ==
    /\ BadMetadata /\ StaticDone /\ st_run = 2
    /\ st_cached # None /\ Unwrap(st_cached).variant = "advanced"
    /\ Unwrap(st_cached).data.interpreter_of = "r_meta"
    /\ st_ret = Ok(<<Choice("A", None), Choice("B", None)>>)

(***************************************************************************)
(* Failure of the eligibility filter (under SpecElig)                      *)
(***************************************************************************)
\* the filter call got a graph, and projecting or evaluating its candidate i fails
CandidateFails(i) ==
    \/ IntoDirValue(el_used.chosen[i]).kind = "Err"
    \/ el_used.chosen[i].connector \in el_used.cg.val.faulty

FilterRanOnGraph == el_used # NoCall /\ el_used.cg.kind = "Ok"

\* C23: when projecting or evaluating any one candidate fails, the filter
\* call returns KgraphAnalysisError and no list, however many candidates
\* before it were accepted; so does a payment that has no analysis context.
C23_FilterFailsClosed ==
    /\ (FilterRanOnGraph /\ \E i \in 1..Len(el_used.chosen) : CandidateFails(i))
          => el_used.out = Err("KgraphAnalysisError")
    /\ (el_used # NoCall /\ ~el_in.payment_data.context_ok)
          => el_used.out = Err("KgraphAnalysisError")

\* the first candidate passed the graph and the allow-list, the second has
\* no DirValue, and the call failed
C23_Witness ==
    /\ FilterRanOnGraph
    /\ Len(el_used.chosen) = 2
    /\ ~CandidateFails(1)
    /\ JudgedValid(el_used.cg.val, el_used.chosen[1]) /\ InAllowList(el_used.chosen[1])
    /\ IntoDirValue(el_used.chosen[2]).kind = "Err"
    /\ el_used.out = Err("KgraphAnalysisError")

(***************************************************************************)
(* Properties of the graph refresh (under SpecGraph)                       *)
(***************************************************************************)
GraphDone == gr_pc = "done" /\ gr_ret # NoCall

\* the call is the second one, on the key of a first call whose refresh failed
AfterFailedRefresh ==
    /\ gr_run = 2
    /\ gr_prev.tried /\ gr_prev.ret.kind = "Err"
    /\ GraphKey(gr_call) = GraphKey(gr_prev.call)

\* C24: a refresh that fails (account fetch, conversion, pm_filters, graph
\* construction) fails its call and publishes nothing: the only entries are
\* those an earlier successful call returned; the next get on the same key
\* finds the entry absent and starts the refresh again.
C24_FailedRefreshIsRetried ==
    /\ (GraphDone /\ gr_tried /\ gr_ret.kind = "Err") =>
          \A key \in CgraphKeys :
             cgraph_cache[key] # Absent =>
                (gr_run = 2 /\ gr_prev.ret = Ok(cgraph_cache[key]))
    /\ (AfterFailedRefresh /\ gr_call.op = "get" /\ gr_call.profile_id # None
        /\ gr_pc \notin {"start", "lookup"}) =>
          /\ gr_tried
          /\ gr_pc = "done" => (gr_ret.kind = "Ok" => cgraph_cache[GraphKey(gr_call)] = gr_ret.val)

\* the first call's account fetch failed; the second get on the key
\* refreshed again and returned the graph it published
C24_Witness ==
    /\ AfterFailedRefresh
    /\ gr_prev.ret = Err("KgraphCacheRefreshFailed")
    /\ gr_call.op = "get" /\ gr_prev.call.op = "get"
    /\ GraphDone /\ gr_tried /\ gr_ret.kind = "Ok"
    /\ Len(gr_ret.val.accounts) > 0
    /\ cgraph_cache[GraphKey(gr_call)] = gr_ret.val

\* the call's refresh fetched and converted its accounts, and went through
\* the pm_filters conversion
ConvertedFilters ==
    /\ gr_rows # None
    /\ gr_pc \in {"push", "done"}
    /\ ApiMcas(IncludedAccounts(Unwrap(gr_rows), gr_call.transaction_type,
                                gr_call.profile_id)).kind = "Ok"

\* the pm_filters keys that are neither "default" nor a connector name
UnknownFilterKeys ==
    {key \in DOMAIN gr_filters : key # "default" /\ key \notin RoutableConnectorNames}

\* C25: in a refresh that reaches the pm_filters conversion, an unknown key
\* (any key but "default" that names no routable connector) fails the
\* refresh with InvalidConnectorName carrying an unknown key; with no unknown
\* key there is no such error, "default" included, and the graph is built
\* with the other keys as connector filters and with the "default" entry as
\* default filter (absent when the map has no such key).
C25_UnknownFilterKeyFails ==
    ConvertedFilters =>
        /\ UnknownFilterKeys # {} =>
              /\ gr_pc = "done"
              /\ gr_ret \in {Err(InvalidConnectorName(key)) : key \in UnknownFilterKeys}
        /\ UnknownFilterKeys = {} =>
              gr_ret \notin {Err(InvalidConnectorName(key)) : key \in PmFilterKeys}
        /\ gr_local # None =>
              LET config == Unwrap(gr_local).config_pm_filters
              IN  /\ DOMAIN config.connector_configs = DOMAIN gr_filters \ {"default"}
                  /\ \A key \in DOMAIN config.connector_configs :
                        config.connector_configs[key] = ForeignInto(gr_filters[key])
                  /\ "default" \in DOMAIN gr_filters =>
                        config.default_configs = Some(ForeignInto(gr_filters["default"]))
                  /\ "default" \notin DOMAIN gr_filters => config.default_configs = None

\* pm_filters has "default" and two unknown keys; the refresh failed with
\* InvalidConnectorName on the second of them
C25_Witness ==
    /\ ConvertedFilters
    /\ DOMAIN gr_filters = {"default", "bogus", "bogus2"}
    /\ GraphDone
    /\ gr_ret = Err(InvalidConnectorName("bogus2"))

\* the account is one a graph for (transaction_type, profile_id) may contain
MayContribute(account, transaction_type, profile_id) ==
    /\ ~account.disabled
    /\ transaction_type = "Payment" =>
          /\ account.connector_type \notin {"PaymentVas", "PaymentMethodAuth",
                                            "PayoutProcessor", "AuthenticationProcessor"}
          /\ account.connector_type = "PaymentProcessor"
    /\ transaction_type = "Payout" => account.connector_type = "PayoutProcessor"
    /\ profile_id # None => account.profile_id = Unwrap(profile_id)

\* C26: every account of a graph the refresh built is enabled, is a payment
\* processor for Payment (no PaymentVas, PaymentMethodAuth, PayoutProcessor
\* or AuthenticationProcessor) and a PayoutProcessor for Payout, and belongs
\* to the call's profile when a profile id is given.
C26_GraphAccountsMatchCall ==
    gr_local # None =>
        \A i \in 1..Len(Unwrap(gr_local).accounts) :
           MayContribute(Unwrap(gr_local).accounts[i], gr_call.transaction_type,
                         gr_call.profile_id)

\* from a store with accounts of every type, enabled and disabled, in two
\* profiles, the payment graph of the profile was built on one account and
\* published
C26_Witness ==
    /\ Len(gr_store) >= Len(AllAccounts)
    /\ gr_call.transaction_type = "Payment" /\ gr_call.profile_id = Some(GraphProfile)
    /\ GraphDone /\ gr_local # None
    /\ Len(Unwrap(gr_local).accounts) = 1
    /\ Unwrap(gr_local).accounts[1].connector_name = "stripe"
    /\ cgraph_cache[GraphKey(gr_call)] = Unwrap(gr_local)

(***************************************************************************)
(* Frame and order of the static routing call (under SpecStatic)           *)
(***************************************************************************)
\* the compiled form of the store row of the call's algorithm id
CompiledRow ==
    LoadAlgorithm(FindRoutingAlgorithm(CacheProfile, Unwrap(st_in.algorithm_id)))

AtFilter == se_pc \in {"filter", "retry", "retain"}

SessionRoutingKey == RoutingKey("Payment", SessMerchant, Unwrap(se_profile))

\* the errors of algorithm resolution and evaluation
ResolveOrEvaluateErrors ==
    {"DslMissingInDb", "DslParsingError", "DslBackendInitError", "DslExecutionError",
     "DslIncorrectSelectionAlgorithm", "DslFinalConnectorSelectionFailed",
     "ConnectorSelectionFailed"}

\* C28: a partition reaches the filter only after its algorithm was resolved
\* (the entry is in the cache, or the default config was fetched) and
\* evaluated (the candidates are the evaluation's output); a call whose
\* resolution or evaluation failed has returned the error with no partition
\* handed to the filter for it.
C28_ResolveEvaluateFilter ==
    /\ (AtFilter /\ se_in.algorithm_id # None) =>
          /\ routing_cache[SessionRoutingKey] # Absent
          /\ \E raw \in ThreadDraws :
                SessionDispatch(routing_cache[SessionRoutingKey],
                                SessionBackendInput(se_part.pm_type), se_in.attempt_id,
                                raw, vs_checks) = Ok(se_part.chosen)
    /\ (AtFilter /\ se_in.algorithm_id = None) => se_part.chosen = se_in.default_config
    /\ (se_pc = "done" /\ se_ret.kind = "Err" /\ se_ret.err \in ResolveOrEvaluateErrors) =>
          \/ se_part = NoCall
          \/ /\ se_log[se_part.pm_type] # NoCall
             /\ se_log[se_part.pm_type].part = se_part

\* the algorithm was resolved and published, its evaluation failed, and the
\* call returned the error: no partition reached the filter and no graph was
\* asked for
C28_Witness ==
    /\ se_pc = "done" /\ se_run = 1
    /\ se_ret = Err("ConnectorSelectionFailed")
    /\ se_part = NoCall
    /\ routing_cache[SessionRoutingKey] # Absent
    /\ \A key \in CgraphKeys : cgraph_cache[key] = Absent

(***************************************************************************)
(* Which algorithm a call gets (under SpecCache)                           *)
(***************************************************************************)
\* task p's ensure_algorithm_cached_v1 has returned an algorithm
GotAlgorithm(p) ==
    RoutingDone(p) /\ ca_call[p].op = "get" /\ ca_ret[p].kind = "Ok"

\* the compiled form of the store row of the algorithm id task p passed
OwnRowCompiled(p) ==
    LoadAlgorithm(FindRoutingAlgorithm(Unwrap(ca_call[p].profile_id),
                                       ca_call[p].algorithm_id))

\* C29 as stated: a call made with algorithm id X gets the compiled form of
\* the store row for X, never an algorithm compiled from another id that an
\* earlier call published under the key.
C29_CallGetsItsOwnAlgorithm ==
    \A p \in Procs : GotAlgorithm(p) => ca_ret[p] = OwnRowCompiled(p)

\* C29 amended: a call that misses the cache gets the compiled form of the
\* store row for its algorithm id; a call that hits gets the entry last
\* published under the key, whichever algorithm id it was loaded with.
C29_MissGetsItsOwnAlgorithm ==
    \A p \in Procs :
       GotAlgorithm(p) =>
          /\ ca_loaded[p] = "row" => ca_ret[p] = OwnRowCompiled(p)
          /\ ca_loaded[p] # "row" =>
                /\ ca_loaded[p] = "no" /\ ca_seen[p] # None
                /\ ca_ret[p].val = Unwrap(ca_seen[p])

\* one task missed and got its own algorithm; the other hit the entry and
\* got an algorithm that is not the compiled row of the id it passed
C29_Witness ==
    \E p \in Procs : \E q \in Procs \ {p} :
        /\ GotAlgorithm(p) /\ ca_loaded[p] = "row" /\ ca_ret[p] = OwnRowCompiled(p)
        /\ GotAlgorithm(q) /\ ca_loaded[q] = "no" /\ ca_ret[q] = ca_ret[p]
        /\ ca_call[q].algorithm_id # ca_call[p].algorithm_id
        /\ ca_ret[q] # OwnRowCompiled(q)

(***************************************************************************)
(* Whose entry a get returns (under SpecGraph)                             *)
(***************************************************************************)
\* get_merchant_cgraph returned the entry it found under the call's key
GraphHit ==
    GraphDone /\ gr_call.op = "get" /\ gr_ret.kind = "Ok" /\ ~gr_tried

\* C30: an entry published for one (transaction type, merchant, profile) is
\* never returned by a get for a different combination: the entry a get
\* finds under its key was published by a call for the same combination.
C30_CacheIsolation ==
    GraphHit => gr_owner[GraphKey(gr_call)] = Some(GraphTriple(gr_call))

(***************************************************************************)
(* The split winner and the removal (under SpecSplit)                      *)
(***************************************************************************)
\* the last call of perform_volume_split returned a connector list
SplitReturned == vs_last.out.kind = "Ok"

\* C31: whenever perform_volume_split returns a list, the element it moved to
\* index 0 has a strictly positive weight, for seeded and unseeded calls.
C31_WinnerHasPositiveWeight ==
    SplitReturned =>
       /\ vs_splits[vs_last.out.idx + 1].split > 0
       /\ vs_last.out.val[1] = vs_splits[vs_last.out.idx + 1].connector

\* a call returned a list whose input starts with a weight of 0 and holds a
\* positive weight behind it
C31_Witness ==
    /\ SplitReturned
    /\ Len(vs_splits) >= 2
    /\ vs_splits[1].split = 0
    /\ vs_last.out.idx >= 1

\* C32: perform_volume_split never panics: a call either fails with
\* VolumeSplitFailed or reaches splits.remove(idx) with idx < len(splits).
C32_NeverPanics ==
    SplitCalled =>
       /\ vs_last.out # Panic
       /\ vs_last.out.kind = "Ok" => vs_last.out.idx < Len(vs_splits)

(***************************************************************************)
(* The webhook switch (under SpecWebhook)                                  *)
(***************************************************************************)
WebhookDone == wh_pc = "done" /\ wh_ret.kind = "Returned"

\* the database was consulted by the call
DbConsulted == wh_db_res # NoCall

\* the config the call obtained: from redis, else from the database
ConfigObtained ==
    IF wh_redis_res.kind = "Ok" THEN Some(wh_redis_res.val)
    ELSE IF wh_db_res.kind = "Ok" /\ wh_db_res.val.kind = "array"
    THEN Some({wh_db_res.val.items[i] : i \in 1..Len(wh_db_res.val.items)})
    ELSE None

\* C33: the database is consulted only when the redis lookup failed; the
\* call returns true exactly when the config it obtained (from redis, else
\* from the database) contains the event, and false whenever the redis
\* lookup failed and the database fetch failed or its config did not parse.
C33_RedisThenDbFailOpen ==
    /\ DbConsulted => wh_redis_res.kind = "Err"
    /\ WebhookDone =>
          /\ wh_redis_res.kind = "Err" <=> DbConsulted
          /\ wh_redis_res.kind = "Ok" =>
                wh_redis[WebhookKey(wh_call)].kind = "array"
          /\ wh_db_res.kind = "Ok" =>
                wh_configs[WebhookKey(wh_call)] = Some(wh_db_res.val)
          /\ wh_ret.val <=>
                (ConfigObtained # None /\ wh_call.event \in Unwrap(ConfigObtained))
          /\ (ConfigObtained = None) => ~wh_ret.val

\* the redis lookup failed, the database row did not parse, and the call
\* answered that the event is enabled
C33_Witness ==
    /\ WebhookDone
    /\ wh_redis_res.kind = "Err"
    /\ wh_db_res = Ok(NotAConfig)
    /\ wh_ret.val = FALSE
    /\ wh_run = 2
    /\ wh_prev.redis_res.kind = "Ok" /\ wh_prev.db_res = NoCall /\ wh_prev.ret.val = TRUE

\* the first call fetched a config from the database and the call now made
\* is for the same merchant and connector
AfterDbFetch ==
    /\ wh_run = 2
    /\ wh_prev.db_res.kind = "Ok"
    /\ WebhookKey(wh_call) = WebhookKey(wh_prev.call)

====
